---------------------------- MODULE Spec2Model ----------------------------
(***************************************************************************)
(* Model of the TSP analysis pipeline: src/analysis/utils.py (result       *)
(* loading, name canonicalization, statistics, exports) and                *)
(* src/analysis/generate_report.py (TSPReportGenerator and main).          *)
(*                                                                         *)
(* Strings are sequences of one-character strings, so that regular         *)
(* expression substitution, str.replace and concatenation are computed     *)
(* character by character as Python computes them.  Labels range over      *)
(* newline-free text.                                                      *)
(***************************************************************************)
EXTENDS Integers, Sequences, FiniteSets, TLC

VARIABLES
    \* ---- name canonicalization (SpecCanon) ----
    label,          \* the algorithm label the regex is applied to
    tHist,          \* successive results of the report tables' substitution
    uHist,          \* successive results of the utils.py substitution
    \* ---- one run of main() (Spec) ----
    instances,      \* requested instance names, in the caller's order
    fsResults,      \* instance -> its results file (NoResults when there is none)
    fsViz,          \* instance -> its visualization file (NoViz when there is none)
    pc,             \* position of main()
    algorithm_data, \* self.algorithm_data: ordered dict as a sequence of entries
    dirs,           \* directories created at the output location
    images,         \* images directory: file name -> the figure last saved there
    visualizations, \* self.visualizations: instance -> list of figure entries
    plotIdx,        \* next plot of generate_visualizations' nested loops
    report,         \* the written report file, a list of parts (NoReport: no file)
    error,          \* the exception main() caught, or NoError
    exit_code,      \* main()'s return value, or Running
    \* ---- an analysis session over loaded data (SpecAnalysis) ----
    ops,            \* the analysis operations called so far, in call order
    ranking,        \* create_performance_ranking: instance -> ranked rows
    analysis,       \* perform_statistical_analysis: instance -> what it reports
    statistics,     \* export_statistics_summary: instance -> stats_summary
    tables,         \* the two tables last built from the loaded data
    plots,          \* the best-solution figures drawn by the utils renderers
    tests,          \* perform_statistical_tests: instance -> what it prints
    displayed,      \* display_algorithm_statistics: the instance tables printed
    exports,        \* the exporter's output directory: the files written, in order
    clock,          \* the second datetime.now() last returned
    calls           \* further generate() calls made on the generator

canonVars == <<label, tHist, uHist>>
runVars == <<instances, fsResults, fsViz, pc, algorithm_data, dirs, images,
             visualizations, plotIdx, report, error, exit_code>>
anaVars == <<ops, ranking, analysis, statistics, tables, plots>>
extVars == <<tests, displayed, exports, clock, calls>>
vars == <<label, tHist, uHist, instances, fsResults, fsViz, pc, algorithm_data,
          dirs, images, visualizations, plotIdx, report, error, exit_code,
          ops, ranking, analysis, statistics, tables, plots,
          tests, displayed, exports, clock, calls>>

NoReport == <<>>
Running == "running"
NoError == "none"

\* no analysis operation has been called, nothing exported, generate() not
\* called yet
NoAnalysis ==
    /\ ops = <<>>
    /\ ranking = <<>>
    /\ analysis = <<>>
    /\ statistics = <<>>
    /\ tables = <<>>
    /\ plots = <<>>
    /\ tests = <<>>
    /\ displayed = <<>>
    /\ exports = <<>>
    /\ clock = 0
    /\ calls = 0

(***************************************************************************)
(* Text helpers                                                            *)
(***************************************************************************)
RECURSIVE Flatten(_)
Flatten(ss) == IF ss = <<>> THEN <<>> ELSE Head(ss) \o Flatten(Tail(ss))

START == <<"_", "s", "t", "a", "r", "t">>

DigitChars == {"0", "1", "2", "3", "4", "5", "6", "7", "8", "9"}

\* s has the literal t at position i
HasAt(s, t, i) ==
    /\ i + Len(t) - 1 <= Len(s)
    /\ \A k \in 1..Len(t) : s[i + k - 1] = t[k]

\* index of the last character of the greedy digit run \d+ starting at j
\* (j - 1 when s[j] is no digit)
RECURSIVE DigitRunEnd(_, _)
DigitRunEnd(s, j) ==
    IF j <= Len(s) /\ s[j] \in DigitChars THEN DigitRunEnd(s, j + 1) ELSE j - 1

\* the pattern _start\d+ matches at position i
MatchesAt(s, i) == HasAt(s, START, i) /\ DigitRunEnd(s, i + Len(START)) >= i + Len(START)

(***************************************************************************)
(* re.sub(r'_start\d+$', '', s): the report tables' "Clean algorithm       *)
(* names".  The match must end at the end of the string; after greedy      *)
(* digits the next character is no digit, so backtracking never reaches    *)
(* the anchor.                                                             *)
(***************************************************************************)
RECURSIVE CleanFrom(_, _)
CleanFrom(s, i) ==
    IF i > Len(s) THEN <<>>
    ELSE IF MatchesAt(s, i) /\ DigitRunEnd(s, i + Len(START)) = Len(s) THEN <<>>
    ELSE <<s[i]>> \o CleanFrom(s, i + 1)

CleanAlgorithmName(s) == CleanFrom(s, 1)

(***************************************************************************)
(* re.sub(r'_start\d+', '', s): utils.py's base_algorithm.  Every          *)
(* non-overlapping match, scanning left to right, is removed.              *)
(***************************************************************************)
RECURSIVE BaseFrom(_, _)
BaseFrom(s, i) ==
    IF i > Len(s) THEN <<>>
    ELSE IF MatchesAt(s, i) THEN BaseFrom(s, DigitRunEnd(s, i + Len(START)) + 1)
    ELSE <<s[i]>> \o BaseFrom(s, i + 1)

BaseAlgorithm(s) == BaseFrom(s, 1)

(***************************************************************************)
(* SpecCanon: the two substitutions applied, repeatedly, to bounded labels *)
(***************************************************************************)
MaxPieces == 5
MaxApply == 2

Pieces == { <<"f", "o", "o">>, START, <<"3">>, <<"_", "s", "t", "a">>, <<"r", "t">> }

Labels == { Flatten(ps) : ps \in UNION { [1..n -> Pieces] : n \in 1..MaxPieces } }

Last(h) == h[Len(h)]

InitCanon ==
    /\ label \in Labels
    /\ tHist = <<>>
    /\ uHist = <<>>
    /\ instances = <<>>
    /\ fsResults = <<>>
    /\ fsViz = <<>>
    /\ pc = "canon"
    /\ algorithm_data = <<>>
    /\ dirs = {}
    /\ images = <<>>
    /\ visualizations = <<>>
    /\ plotIdx = 0
    /\ report = NoReport
    /\ error = NoError
    /\ exit_code = Running
    /\ NoAnalysis

\* df['algorithm'].str.replace(r'_start\d+$', '', regex=True)
ApplyClean ==
    /\ pc = "canon"
    /\ Len(tHist) < MaxApply
    /\ tHist' = Append(tHist, CleanAlgorithmName(IF tHist = <<>> THEN label ELSE Last(tHist)))
    /\ UNCHANGED <<label, uHist>>
    /\ UNCHANGED runVars
    /\ UNCHANGED anaVars
    /\ UNCHANGED extVars

\* df['algorithm'].str.replace(r'_start\d+', '', regex=True)
ApplyBase ==
    /\ pc = "canon"
    /\ Len(uHist) < MaxApply
    /\ uHist' = Append(uHist, BaseAlgorithm(IF uHist = <<>> THEN label ELSE Last(uHist)))
    /\ UNCHANGED <<label, tHist>>
    /\ UNCHANGED runVars
    /\ UNCHANGED anaVars
    /\ UNCHANGED extVars

NextCanon == ApplyClean \/ ApplyBase

SpecCanon == InitCanon /\ [][NextCanon]_vars

(***************************************************************************)
(* Claims on canonicalization                                              *)
(***************************************************************************)
\* the label ends with _start followed by one or more digits
HasTrailingSuffix(s) ==
    \E i \in 1..Len(s) :
        /\ HasAt(s, START, i)
        /\ i + Len(START) <= Len(s)
        /\ \A k \in (i + Len(START))..Len(s) : s[k] \in DigitChars

\* the label without that trailing suffix
WithoutTrailingSuffix(s) ==
    IF HasTrailingSuffix(s)
    THEN LET i == CHOOSE i \in 1..Len(s) :
                    /\ HasAt(s, START, i)
                    /\ i + Len(START) <= Len(s)
                    /\ \A k \in (i + Len(START))..Len(s) : s[k] \in DigitChars
         IN SubSeq(s, 1, i - 1)
    ELSE s

\* C1: in every place that strips the suffix, the result is the label without
\* its trailing _start<digits> suffix, and the label itself when it has none
\* (a _start<digits> in the middle is left alone).
C1_OnlyTrailingSuffixStripped ==
    /\ Len(tHist) >= 1 => tHist[1] = WithoutTrailingSuffix(label)
    /\ Len(uHist) >= 1 => uHist[1] = WithoutTrailingSuffix(label)

\* C2: canonicalization is idempotent in both places: applying it to its own
\* result changes nothing.
C2_Idempotent ==
    /\ Len(tHist) >= 2 => tHist[2] = tHist[1]
    /\ Len(uHist) >= 2 => uHist[2] = uHist[1]

\* C26: every component derives the same canonical name from the same
\* label: the name of the report's table rows equals the name the loader's
\* listing, the statistics, the ranking and the exports use.
C26_OneCanonicalName ==
    (Len(tHist) >= 1 /\ Len(uHist) >= 1) => tHist[1] = uHist[1]

(***************************************************************************)
(* Python string order and number formatting                               *)
(***************************************************************************)
\* the printable ASCII characters in code point order, from U+0020 (the
\* double quote, the backslash and the backtick, which no name here uses, are
\* place holders)
Ascii == <<
    " ", "!", "DQUOTE", "#", "$", "%", "&", "'", "(", ")", "*", "+", ",", "-",
    ".", "/", "0", "1", "2", "3", "4", "5", "6", "7", "8", "9", ":", ";",
    "<", "=", ">", "?", "@", "A", "B", "C", "D", "E", "F", "G", "H", "I",
    "J", "K", "L", "M", "N", "O", "P", "Q", "R", "S", "T", "U", "V", "W",
    "X", "Y", "Z", "[", "BACKSLASH", "]", "^", "_", "BACKTICK", "a", "b", "c", "d", "e",
    "f", "g", "h", "i", "j", "k", "l", "m", "n", "o", "p", "q", "r", "s",
    "t", "u", "v", "w", "x", "y", "z", "{", "|", "}", "~" >>

CodePoint(c) == 31 + (CHOOSE k \in 1..Len(Ascii) : Ascii[k] = c)

\* a < b for Python str: code point by code point, a proper prefix first
RECURSIVE StrLess(_, _)
StrLess(a, b) ==
    IF b = <<>> THEN FALSE
    ELSE IF a = <<>> THEN TRUE
    ELSE IF Head(a) = Head(b) THEN StrLess(Tail(a), Tail(b))
    ELSE CodePoint(Head(a)) < CodePoint(Head(b))

\* sorted(keys) for a set of distinct strings
RECURSIVE Sorted(_)
Sorted(S) ==
    IF S = {} THEN <<>>
    ELSE LET m == CHOOSE x \in S : \A y \in S \ {x} : StrLess(x, y)
         IN <<m>> \o Sorted(S \ {m})

\* str(n) for a natural number
RECURSIVE NatStr(_)
NatStr(n) ==
    IF n < 10 THEN <<Ascii[17 + n]>> ELSE NatStr(n \div 10) \o <<Ascii[17 + (n % 10)]>>

\* f"{v:.2f}" for the value h/100, h an integer number of hundredths
Fixed2(h) ==
    LET m == IF h < 0 THEN 0 - h ELSE h
    IN (IF h < 0 THEN <<"-">> ELSE <<>>)
       \o NatStr(m \div 100) \o <<".">>
       \o <<Ascii[17 + ((m % 100) \div 10)], Ascii[17 + (m % 10)]>>

RECURSIVE SumSeq(_)
SumSeq(q) == IF q = <<>> THEN 0 ELSE Head(q) + SumSeq(Tail(q))

SeqMin(q) == CHOOSE v \in {q[k] : k \in 1..Len(q)} : \A k \in 1..Len(q) : v <= q[k]
SeqMax(q) == CHOOSE v \in {q[k] : k \in 1..Len(q)} : \A k \in 1..Len(q) : v >= q[k]

\* Series.mean() in hundredths, rounded as the format rounds it (run values are
\* integers and a group has fewer than 8 runs, so no rounding tie occurs)
Mean100(q) == (200 * SumSeq(q) + Len(q)) \div (2 * Len(q))

(***************************************************************************)
(* Input data of a run: instance names, result files, visualization files  *)
(***************************************************************************)
MaxInst == 2    \* longest requested instance list
MaxAlgs == 2    \* most best solutions in one visualization payload

InstX == <<"X">>
InstXa == <<"X", "_", "a">>
InstanceNames == {InstX, InstXa}

Greedy1 == <<"g", "r", "e", "e", "d", "y", "_", "s", "t", "a", "r", "t", "1">>
Greedy2 == <<"g", "r", "e", "e", "d", "y", "_", "s", "t", "a", "r", "t", "2">>
Regret == <<"r", "e", "g", "r", "e", "t">>

Run(a, o, t) == [algorithm |-> a, objective_value |-> o, computation_time_ms |-> t]

\* the contents of a results file: the list under "results"
ResultsChoices == {
    <<>>,
    <<Run(Greedy1, 100, 5), Run(Greedy2, 90, 6), Run(Regret, 110, 7)>>,
    <<Run(Regret, 110, 7), Run(Greedy1, 100, 5)>>,
    <<Run(Regret, 110, 7)>>,
    <<Run(Greedy2, 90, 6)>> }

Node(i, px, py, c) == [id |-> i, x |-> px, y |-> py, cost |-> c]

NodesVaried == <<Node(3, 0, 0, 1), Node(7, 10, 0, 5), Node(9, 0, 10, 10)>>
NodesUniform == <<Node(3, 0, 0, 5), Node(7, 10, 0, 5), Node(9, 0, 10, 5)>>

Trace(r, sel, ok) == [route |-> r, selected_nodes |-> sel, is_validated |-> ok]

TraceGood == Trace(<<3, 7, 9>>, <<3, 7, 9>>, TRUE)
TraceUnknownNode == Trace(<<3, 4>>, <<3, 4>>, TRUE)
TraceEmptyRoute == Trace(<<>>, <<>>, TRUE)
TraceFailed == Trace(<<9, 3, 7>>, <<3, 7, 9>>, FALSE)
TraceMismatch == Trace(<<3, 7, 9>>, <<3, 7>>, TRUE)
TraceMismatchFailed == Trace(<<3, 7>>, <<3, 7, 9>>, FALSE)
TraceSingle == Trace(<<7>>, <<7>>, TRUE)
TracePartial == Trace(<<7, 3>>, <<3, 7>>, TRUE)
Traces == {TraceGood, TraceUnknownNode, TraceEmptyRoute, TraceFailed, TraceMismatch,
           TraceMismatchFailed, TraceSingle}

AlgSlash == <<"a", "/", "b">>
AlgSpace == <<"a", " ", "b">>
AlgUnder == <<"a", "_", "b">>
AlgB == <<"b">>
AlgNames == {AlgSlash, AlgSpace, AlgUnder, AlgB}

Sol(a, t) == [algorithm |-> a, solution_data |-> t]

\* best_solutions: an ordered dict, so a list of entries with distinct keys
DistinctKeys(bs) == \A i, j \in 1..Len(bs) : i # j => bs[i].algorithm # bs[j].algorithm

\* the mappings over the entries E, the empty mapping among them: the loop of
\* generate_visualizations then runs zero times
SolLists(E) ==
    { bs \in UNION { [1..n -> E] : n \in 0..MaxAlgs } : DistinctKeys(bs) }

\* every name with a well-formed trace; and a fixed pair of names with every
\* trace
BestSolutionsChoices ==
    SolLists({Sol(a, TraceGood) : a \in AlgNames})
    \cup SolLists({Sol(AlgUnder, TraceGood)} \cup {Sol(AlgB, t) : t \in Traces})

\* a visualization file, and the None that stands for a missing one
Viz(n, bs) == [exists |-> TRUE, nodes |-> n, best_solutions |-> bs]
NoViz == [exists |-> FALSE, nodes |-> <<>>, best_solutions |-> <<>>]

\* a results file with its "results" list, and a missing results file
Results(rows) == [exists |-> TRUE, results |-> rows]
NoResults == [exists |-> FALSE, results |-> <<>>]

VizChoices ==
    {Viz(NodesVaried, bs) : bs \in BestSolutionsChoices}
    \cup {Viz(NodesUniform, <<Sol(AlgB, TraceGood)>>),
          Viz(NodesUniform, <<Sol(AlgUnder, TraceGood), Sol(AlgB, TraceGood)>>)}

File(r, v) == [results |-> r, viz |-> v]

\* what the results folder holds for one instance
FileChoices ==
    {File(NoResults, NoViz)}
    \cup {File(Results(r), v) : r \in ResultsChoices,
                                v \in {NoViz, Viz(NodesVaried, <<Sol(AlgB, TraceGood)>>)}}
    \cup {File(Results(<<Run(Regret, 110, 7)>>), v) : v \in VizChoices}

InstanceLists == UNION { [1..n -> InstanceNames] : n \in 1..MaxInst }

Range(q) == {q[k] : k \in 1..Len(q)}

(***************************************************************************)
(* utils.load_algorithm_results and utils.load_all_algorithm_results       *)
(***************************************************************************)
\* load_algorithm_results: (df, viz_data) or (None, None); the summary digest
\* is read the same way as the visualization payload and is not used by main
load_algorithm_results(instance_name) ==
    IF ~fsResults[instance_name].exists
    THEN [found |-> FALSE, df |-> <<>>, viz_data |-> NoViz]
    ELSE [found |-> TRUE, df |-> fsResults[instance_name].results,
          viz_data |-> fsViz[instance_name]]

\* all_data[instance] = value: a new key goes last, a known key keeps its place
DictSet(d, key, value) ==
    IF \E k \in 1..Len(d) : d[k].instance = key
    THEN [k \in 1..Len(d) |-> IF d[k].instance = key THEN value ELSE d[k]]
    ELSE Append(d, value)

\* mutant of LoadFrom: the loop ends at the first instance without results
RECURSIVE LoadFromStopsAtAbsent(_, _, _)
LoadFromStopsAtAbsent(insts, k, all_data) ==
    IF k > Len(insts) THEN all_data
    ELSE LET got == load_algorithm_results(insts[k])
         IN IF got.found
            THEN LoadFromStopsAtAbsent(insts, k + 1,
                          DictSet(all_data, insts[k],
                                  [instance |-> insts[k], df |-> got.df,
                                   viz_data |-> got.viz_data]))
            ELSE all_data

\* the for loop of load_all_algorithm_results from position k on
RECURSIVE LoadFrom(_, _, _)
LoadFrom(insts, k, all_data) ==
    IF k > Len(insts) THEN all_data
    ELSE LET got == load_algorithm_results(insts[k])
         IN IF got.found
            THEN LoadFrom(insts, k + 1,
                          DictSet(all_data, insts[k],
                                  [instance |-> insts[k], df |-> got.df,
                                   viz_data |-> got.viz_data]))
            ELSE LoadFrom(insts, k + 1, all_data)

load_all_algorithm_results(insts) == LoadFrom(insts, 1, <<>>)

Keys(d) == {d[k].instance : k \in 1..Len(d)}
Entry(d, key) == d[CHOOSE k \in 1..Len(d) : d[k].instance = key]

(***************************************************************************)
(* TSPReportGenerator: tables                                              *)
(***************************************************************************)
NA == <<"N", "/", "A">>

\* df[df['algorithm'] == a][field], the algorithm column cleaned first
RECURSIVE GroupValues(_, _, _)
GroupValues(df, a, field) ==
    IF df = <<>> THEN <<>>
    ELSE (IF CleanAlgorithmName(Head(df).algorithm) = a THEN <<Head(df)[field]>> ELSE <<>>)
         \o GroupValues(Tail(df), a, field)

\* df['algorithm'].unique() after cleaning, as a set
CleanNames(df) == {CleanAlgorithmName(df[k].algorithm) : k \in 1..Len(df)}

\* f"{mean:.2f} ({min_val:.2f} - {max_val:.2f})"
ObjectiveCell(q) ==
    Fixed2(Mean100(q)) \o <<" ", "(">> \o Fixed2(100 * SeqMin(q)) \o <<" ", "-", " ">>
    \o Fixed2(100 * SeqMax(q)) \o <<")">>

\* f"{mean:.2f} ({min_val:.0f} - {max_val:.0f})"
TimeCell(q) ==
    Fixed2(Mean100(q)) \o <<" ", "(">> \o NatStr(SeqMin(q)) \o <<" ", "-", " ">>
    \o NatStr(SeqMax(q)) \o <<")">>

\* the cell text of the table that reports the given column
CellText(field, q) == IF field = "objective_value" THEN ObjectiveCell(q) ELSE TimeCell(q)

\* algorithm_stats: algorithm -> (instance -> cell), over the loaded instances
AlgorithmStats(ad, field) ==
    LET names == UNION {CleanNames(ad[k].df) : k \in 1..Len(ad)}
    IN [a \in names |->
          [inst \in {ad[k].instance : k \in {k \in 1..Len(ad) : a \in CleanNames(ad[k].df)}} |->
              CellText(field, GroupValues(Entry(ad, inst).df, a, field))]]

\* mutant of RowOrder: the keys sorted in descending order
RowOrderDescending(stats) ==
    LET up == Sorted(DOMAIN stats)
    IN [r \in 1..Len(up) |-> up[Len(up) + 1 - r]]

\* the order in which the rows are emitted: sorted(algorithm_stats.keys())
RowOrder(stats) == Sorted(DOMAIN stats)

\* mutant of TableRow: a missing cell is filled from another instance
TableRowFabricates(stats, insts, a) ==
    [algorithm |-> a,
     cells |-> [j \in 1..Len(insts) |->
                   IF insts[j] \in DOMAIN stats[a] THEN stats[a][insts[j]]
                   ELSE stats[a][CHOOSE inst \in DOMAIN stats[a] : TRUE]]]

\* one table row: algorithm_stats[algorithm].get(instance, "N/A") per column
TableRow(stats, insts, a) ==
    [algorithm |-> a,
     cells |-> [j \in 1..Len(insts) |->
                   IF insts[j] \in DOMAIN stats[a] THEN stats[a][insts[j]] ELSE NA]]

\* "Build table": the header line and one row per algorithm
BuildTable(stats, insts) ==
    LET order == RowOrder(stats)
    IN [columns |-> insts,
        rows |-> [r \in 1..Len(order) |-> TableRow(stats, insts, order[r])]]

_generate_objective_table(ad, insts) ==
    BuildTable(AlgorithmStats(ad, "objective_value"), insts)

_generate_time_table(ad, insts) ==
    BuildTable(AlgorithmStats(ad, "computation_time_ms"), insts)

\* df['algorithm'] raises KeyError on the column-less frame of an empty list
TableError(ad) == IF \E k \in 1..Len(ad) : ad[k].df = <<>> THEN "KeyError" ELSE NoError

(***************************************************************************)
(* TSPReportGenerator: visualizations                                      *)
(***************************************************************************)
\* the (instance, algorithm) pairs of generate_visualizations' nested loops, in
\* order: instances in algorithm_data order, those without a payload skipped
RECURSIVE PlotJobs(_)
PlotJobs(ad) ==
    IF ad = <<>> THEN <<>>
    ELSE (IF ~Head(ad).viz_data.exists THEN <<>>
          ELSE LET bs == Head(ad).viz_data.best_solutions
               IN [j \in 1..Len(bs) |->
                     [instance_name |-> Head(ad).instance,
                      algorithm |-> bs[j].algorithm,
                      solution_data |-> bs[j].solution_data,
                      viz_data |-> Head(ad).viz_data]])
         \o PlotJobs(Tail(ad))

NodeIds(nodes) == {nodes[k].id : k \in 1..Len(nodes)}
NodeCosts(nodes) == [k \in 1..Len(nodes) |-> nodes[k].cost]

\* size = 50 + 200 * (cost - min_cost) / (max_cost - min_cost), as the exact
\* fraction num/den; the division needs max_cost # min_cost
MarkerSize(cost, min_cost, max_cost) ==
    [num |-> 50 * (max_cost - min_cost) + 200 * (cost - min_cost),
     den |-> max_cost - min_cost]

\* the exception _create_solution_plot raises on this job, in statement order
PlotError(job) ==
    LET nodes == job.viz_data.nodes
        sol == job.solution_data
    IN IF nodes = <<>> THEN "ValueError"
       ELSE IF SeqMax(NodeCosts(nodes)) = SeqMin(NodeCosts(nodes)) THEN "ZeroDivisionError"
       ELSE IF \E k \in 1..Len(sol.selected_nodes) :
                  sol.selected_nodes[k] \notin NodeIds(nodes) THEN "KeyError"
       ELSE IF sol.route = <<>> THEN "IndexError"
       ELSE IF \E k \in 1..Len(sol.route) : sol.route[k] \notin NodeIds(nodes) THEN "KeyError"
       ELSE NoError

\* node_coords[node_id]: in the dict comprehension the last node of an id wins
NodeCoord(nodes, id) ==
    LET k == CHOOSE k \in 1..Len(nodes) :
                 /\ nodes[k].id = id
                 /\ \A j \in (k + 1)..Len(nodes) : nodes[j].id # id
    IN <<nodes[k].x, nodes[k].y>>

NodeCost(nodes, id) ==
    LET k == CHOOSE k \in 1..Len(nodes) :
                 /\ nodes[k].id = id
                 /\ \A j \in (k + 1)..Len(nodes) : nodes[j].id # id
    IN nodes[k].cost

\* the scatter calls for the selected nodes, in selected_nodes order
SelectedMarkers(nodes, selected_nodes) ==
    [k \in 1..Len(selected_nodes) |->
        [id |-> selected_nodes[k],
         at |-> NodeCoord(nodes, selected_nodes[k]),
         size |-> MarkerSize(NodeCost(nodes, selected_nodes[k]),
                             SeqMin(NodeCosts(nodes)), SeqMax(NodeCosts(nodes)))]]

\* mutant of RouteCoords: the last point is repeated instead of the first
RouteCoordsLastRepeated(nodes, route) ==
    [k \in 1..Len(route) |-> NodeCoord(nodes, route[k])]
    \o <<NodeCoord(nodes, route[Len(route)])>>

\* route_coords: the coordinates in route order, then route_coords[0] again
RouteCoords(nodes, route) ==
    [k \in 1..Len(route) |-> NodeCoord(nodes, route[k])]
    \o <<NodeCoord(nodes, route[1])>>

\* the arrows of "for i in range(len(route))": from (x1 + 0.3*dx, y1 + 0.3*dy)
\* (xytext) to (x1 + 0.7*dx, y1 + 0.7*dy) (xy), both in tenths of a unit
Arrows(route_coords, n) ==
    [i \in 1..n |->
        LET x1 == route_coords[i][1]
            y1 == route_coords[i][2]
            dx == route_coords[i + 1][1] - x1
            dy == route_coords[i + 1][2] - y1
        IN [tail |-> <<10 * x1 + 3 * dx, 10 * y1 + 3 * dy>>,
            head |-> <<10 * x1 + 7 * dx, 10 * y1 + 7 * dy>>]]

\* the two badges (CHECK and CROSS stand for the check mark and the cross)
BadgeValidated == "CHECK VALIDATED"
BadgeFailed == "CROSS VALIDATION FAILED"

\* mutant of ValidatedText: nothing is shown for a failed validation
ValidatedTextSilent(solution_data) ==
    IF solution_data.is_validated THEN BadgeValidated ELSE ""

\* validated_text of the caption
ValidatedText(solution_data) ==
    IF solution_data.is_validated THEN BadgeValidated ELSE BadgeFailed

\* what a completed _create_solution_plot draws
Figure(job) ==
    LET nodes == job.viz_data.nodes
        sol == job.solution_data
        lo == SeqMin(NodeCosts(nodes))
        hi == SeqMax(NodeCosts(nodes))
    IN [instance_name |-> job.instance_name,
        algorithm |-> job.algorithm,
        node_sizes |-> [k \in 1..Len(nodes) |-> MarkerSize(nodes[k].cost, lo, hi)],
        selected |-> SelectedMarkers(nodes, sol.selected_nodes),
        route_coords |-> RouteCoords(nodes, sol.route),
        arrows |-> Arrows(RouteCoords(nodes, sol.route), Len(sol.route)),
        validated_text |-> ValidatedText(sol)]

\* str.replace(old, new) for one-character old and new
ReplaceChar(s, old, new) == [k \in 1..Len(s) |-> IF s[k] = old THEN new ELSE s[k]]

\* algorithm.replace('/', '_').replace(' ', '_')
SafeAlgorithmName(algorithm) == ReplaceChar(ReplaceChar(algorithm, "/", "_"), " ", "_")

\* f"{instance_name}_{safe_algorithm_name}.png"
FileName(instance_name, algorithm) ==
    instance_name \o <<"_">> \o SafeAlgorithmName(algorithm) \o <<".", "p", "n", "g">>

\* d[key] = value for a dict held as a function
Put(d, key, value) == [k \in DOMAIN d \cup {key} |-> IF k = key THEN value ELSE d[k]]

\* mutant of SaveFig: the file is saved under the algorithm name as given
SaveFigUnsafeName(imgs, job) ==
    Put(imgs, job.instance_name \o <<"_">> \o job.algorithm \o <<".", "p", "n", "g">>,
        Figure(job))

\* plt.savefig(filepath): the images directory after the figure is saved
SaveFig(imgs, job) == Put(imgs, FileName(job.instance_name, job.algorithm), Figure(job))

\* self.visualizations[instance_name].append({...}), the list created on first use
StoreReference(vis, job) ==
    LET entry == [algorithm |-> job.algorithm,
                  filename |-> FileName(job.instance_name, job.algorithm),
                  solution_data |-> job.solution_data]
    IN Put(vis, job.instance_name,
           IF job.instance_name \in DOMAIN vis
           THEN Append(vis[job.instance_name], entry) ELSE <<entry>>)

(***************************************************************************)
(* TSPReportGenerator.generate_markdown_report                             *)
(***************************************************************************)
Part(kind, name, content) == [kind |-> kind, name |-> name, content |-> content]

\* ', '.join(map(str, route))
RECURSIVE JoinRoute(_)
JoinRoute(route) ==
    IF route = <<>> THEN <<>>
    ELSE IF Len(route) = 1 THEN NatStr(route[1])
    ELSE NatStr(Head(route)) \o <<",", " ">> \o JoinRoute(Tail(route))

\* the parts appended for one instance's figure list
FigureParts(entries) ==
    Flatten([k \in 1..Len(entries) |->
        << Part("figure", entries[k].algorithm, entries[k].filename),
           Part("route", entries[k].algorithm, JoinRoute(entries[k].solution_data.route)) >>])

\* the loop over self.instances of the visualization part
RECURSIVE InstanceSections(_, _)
InstanceSections(insts, vis) ==
    IF insts = <<>> THEN <<>>
    ELSE (IF Head(insts) \notin DOMAIN vis THEN <<>>
          ELSE <<Part("instance", Head(insts), <<>>)>> \o FigureParts(vis[Head(insts)]))
         \o InstanceSections(Tail(insts), vis)

\* mutant of generate_markdown_report: the time table before the objective table
ReportTablesSwapped(authors, ad, insts, vis) ==
    <<Part("title", <<>>, <<>>)>>
    \o (IF authors # <<>> THEN <<Part("authors", <<>>, authors)>> ELSE <<>>)
    \o <<Part("pseudocode", <<>>, <<>>),
         Part("time_table", <<>>, _generate_time_table(ad, insts)),
         Part("objective_table", <<>>, _generate_objective_table(ad, insts)),
         Part("visualization", <<>>, <<>>)>>
    \o InstanceSections(insts, vis)
    \o <<Part("conclusions", <<>>, <<>>),
         Part("key_findings", <<>>, <<>>),
         Part("performance_comparison", <<>>, <<>>),
         Part("observations", <<>>, <<>>)>>

generate_markdown_report(authors, ad, insts, vis) ==
    <<Part("title", <<>>, <<>>)>>
    \o (IF authors # <<>> THEN <<Part("authors", <<>>, authors)>> ELSE <<>>)
    \o <<Part("pseudocode", <<>>, <<>>),
         Part("objective_table", <<>>, _generate_objective_table(ad, insts)),
         Part("time_table", <<>>, _generate_time_table(ad, insts)),
         Part("visualization", <<>>, <<>>)>>
    \o InstanceSections(insts, vis)
    \o <<Part("conclusions", <<>>, <<>>),
         Part("key_findings", <<>>, <<>>),
         Part("performance_comparison", <<>>, <<>>),
         Part("observations", <<>>, <<>>)>>

AuthorsChoices == { <<>>, << <<"A">> >> }

(***************************************************************************)
(* main(): construct the generator, generate the figures, write the report *)
(***************************************************************************)
OutputDirs == {"output_dir", "output_dir/images"}

Init ==
    /\ label = <<>>
    /\ tHist = <<>>
    /\ uHist = <<>>
    /\ instances \in InstanceLists
    /\ \E files \in [InstanceNames -> FileChoices] :
          /\ \A n \in InstanceNames \ Range(instances) : files[n] = File(NoResults, NoViz)
          /\ fsResults = [n \in InstanceNames |-> files[n].results]
          /\ fsViz = [n \in InstanceNames |-> files[n].viz]
    /\ pc = "start"
    /\ algorithm_data = <<>>
    /\ dirs = {}
    /\ images = <<>>
    /\ visualizations = <<>>
    /\ plotIdx = 0
    /\ report = NoReport
    /\ error = NoError
    /\ exit_code = Running
    /\ NoAnalysis

\* TSPReportGenerator.__init__: create the directories, load, refuse no data
Construct ==
    /\ pc = "start"
    /\ dirs' = OutputDirs
    /\ algorithm_data' = load_all_algorithm_results(instances)
    /\ IF algorithm_data' = <<>>
       THEN /\ error' = "ValueError"
            /\ exit_code' = 1
            /\ pc' = "done"
            /\ plotIdx' = plotIdx
       ELSE /\ pc' = "visualize"
            /\ plotIdx' = 1
            /\ UNCHANGED <<error, exit_code>>
    /\ UNCHANGED <<instances, fsResults, fsViz, images, visualizations, report>>
    /\ UNCHANGED canonVars
    /\ UNCHANGED extVars
    /\ UNCHANGED anaVars

\* one pass of generate_visualizations' inner loop that completes
RenderPlot ==
    /\ pc = "visualize"
    /\ plotIdx <= Len(PlotJobs(algorithm_data))
    /\ LET job == PlotJobs(algorithm_data)[plotIdx]
       IN /\ PlotError(job) = NoError
          /\ images' = SaveFig(images, job)
          /\ visualizations' = StoreReference(visualizations, job)
    /\ plotIdx' = plotIdx + 1
    /\ UNCHANGED <<instances, fsResults, fsViz, pc, algorithm_data, dirs, report,
                   error, exit_code>>
    /\ UNCHANGED canonVars
    /\ UNCHANGED extVars
    /\ UNCHANGED anaVars

\* one pass that raises: the exception leaves generate() and main() returns 1
RenderFails ==
    /\ pc = "visualize"
    /\ plotIdx <= Len(PlotJobs(algorithm_data))
    /\ PlotError(PlotJobs(algorithm_data)[plotIdx]) # NoError
    /\ error' = PlotError(PlotJobs(algorithm_data)[plotIdx])
    /\ exit_code' = 1
    /\ pc' = "done"
    /\ UNCHANGED <<instances, fsResults, fsViz, algorithm_data, dirs, images,
                   visualizations, plotIdx, report>>
    /\ UNCHANGED canonVars
    /\ UNCHANGED extVars
    /\ UNCHANGED anaVars

\* generate_markdown_report and save_report; main() returns 0
WriteReport ==
    /\ pc = "visualize"
    /\ plotIdx > Len(PlotJobs(algorithm_data))
    /\ TableError(algorithm_data) = NoError
    /\ \E authors \in AuthorsChoices :
          report' = generate_markdown_report(authors, algorithm_data, instances,
                                             visualizations)
    /\ exit_code' = 0
    /\ pc' = "done"
    /\ UNCHANGED <<instances, fsResults, fsViz, algorithm_data, dirs, images,
                   visualizations, plotIdx, error>>
    /\ UNCHANGED canonVars
    /\ UNCHANGED extVars
    /\ UNCHANGED anaVars

\* a table builder raises: no report is saved and main() returns 1
ReportFails ==
    /\ pc = "visualize"
    /\ plotIdx > Len(PlotJobs(algorithm_data))
    /\ TableError(algorithm_data) # NoError
    /\ error' = TableError(algorithm_data)
    /\ exit_code' = 1
    /\ pc' = "done"
    /\ UNCHANGED <<instances, fsResults, fsViz, algorithm_data, dirs, images,
                   visualizations, plotIdx, report>>
    /\ UNCHANGED canonVars
    /\ UNCHANGED extVars
    /\ UNCHANGED anaVars

Next == Construct \/ RenderPlot \/ RenderFails \/ WriteReport \/ ReportFails

Spec == Init /\ [][Next]_vars

(***************************************************************************)
(* A caller that keeps the generator: generate() is called again on the    *)
(* object whose first generate() wrote its report.                         *)
(***************************************************************************)
MaxCalls == 1   \* most further generate() calls

\* generate() called again: generate_visualizations starts over on the same
\* self.visualizations and the same images directory
GenerateAgain ==
    /\ pc = "done"
    /\ report # NoReport
    /\ calls < MaxCalls
    /\ calls' = calls + 1
    /\ pc' = "visualize"
    /\ plotIdx' = 1
    /\ exit_code' = Running
    /\ UNCHANGED <<instances, fsResults, fsViz, algorithm_data, dirs, images,
                   visualizations, report, error>>
    /\ UNCHANGED <<tests, displayed, exports, clock>>
    /\ UNCHANGED canonVars
    /\ UNCHANGED anaVars

NextRegenerate == Next \/ GenerateAgain

SpecRegenerate == Init /\ [][NextRegenerate]_vars

(***************************************************************************)
(* Numbers of the statistics: exact fractions, and the float64 results     *)
(* not-a-number and infinity.  Run values are small integers, so every     *)
(* sum is exact and two means are equal as floats exactly when they are    *)
(* equal as fractions.                                                     *)
(***************************************************************************)
Abs(n) == IF n < 0 THEN 0 - n ELSE n
Sign(n) == IF n < 0 THEN 0 - 1 ELSE IF n = 0 THEN 0 ELSE 1

RECURSIVE Gcd(_, _)
Gcd(a, b) == IF b = 0 THEN a ELSE Gcd(b, a % b)

\* the fraction n/d in lowest terms with a positive denominator (d # 0)
Rat(n, d) ==
    LET g == Gcd(Abs(n), Abs(d))
    IN [num |-> Sign(d) * (n \div g), den |-> Abs(d) \div g]

RatLess(a, b) == a.num * b.den < b.num * a.den

\* float64 values: a finite number (val), nan, or an infinity (sign)
Finite(r) == [kind |-> "num", sign |-> Sign(r.num), val |-> r]
NaN == [kind |-> "nan", sign |-> 0, val |-> Rat(0, 1)]
Infinity(sg) == [kind |-> "inf", sign |-> sg, val |-> Rat(0, 1)]

RECURSIVE SumSquares(_)
SumSquares(q) == IF q = <<>> THEN 0 ELSE Head(q) * Head(q) + SumSquares(Tail(q))

\* Series.mean() of a non-empty series
SeriesMean(q) == Rat(SumSeq(q), Len(q))

\* Series.std() squared: the sample variance (ddof = 1), nan for one sample
SeriesVar(q) ==
    IF Len(q) < 2 THEN NaN
    ELSE Finite(Rat(Len(q) * SumSquares(q) - SumSeq(q) * SumSeq(q), Len(q) * (Len(q) - 1)))

\* std / mean * 100 in float64 arithmetic, the finite result held by its
\* sign and its square: nan / x = nan, 0 / 0 = nan, x / 0 = inf
CvPercent(q) ==
    LET var == SeriesVar(q)
        mean == SeriesMean(q)
    IN IF var.kind = "nan" THEN NaN
       ELSE IF mean.num = 0 THEN (IF var.val.num = 0 THEN NaN ELSE Infinity(1))
       ELSE [kind |-> "num", sign |-> Sign(mean.num) * Sign(var.val.num),
             val |-> Rat(10000 * var.val.num * mean.den * mean.den,
                         var.val.den * mean.num * mean.num)]

\* the largest whole number whose square is at most n (0 <= n < 2^31)
RECURSIVE ISqrtBetween(_, _, _)
ISqrtBetween(n, lo, hi) ==
    IF lo = hi THEN lo
    ELSE LET mid == (lo + hi + 1) \div 2
         IN IF mid * mid <= n THEN ISqrtBetween(n, mid, hi)
            ELSE ISqrtBetween(n, lo, mid - 1)

ISqrt(n) == ISqrtBetween(n, 0, 46340)

(***************************************************************************)
(* float64 arithmetic, for the cases the exact value does not decide: a    *)
(* value that lies exactly half way between two hundredths is rounded by   *)
(* the code as the double it has computed, which lies a little below, a    *)
(* little above or exactly on the half.  A natural number of any size is   *)
(* the sequence of its digits to the base 2^15, lowest first, without a    *)
(* leading zero; a double is sign * man * 2^exp with man at most 2^53.     *)
(* Bind(x, F) is F(x) with x computed once, before F is entered.            *)
(***************************************************************************)
Base == 2^15

Bind(x, F(_)) == CHOOSE y \in {F(v) : v \in {x}} : TRUE

RECURSIVE BTrim(_)
BTrim(a) ==
    IF a = <<>> THEN a
    ELSE IF a[Len(a)] = 0 THEN BTrim(SubSeq(a, 1, Len(a) - 1)) ELSE a

RECURSIVE BFromInt(_)
BFromInt(n) == IF n = 0 THEN <<>> ELSE <<n % Base>> \o BFromInt(n \div Base)

RECURSIVE BToInt(_)
BToInt(a) == IF a = <<>> THEN 0 ELSE a[1] + Base * BToInt(Tail(a))

BRest(a) == IF a = <<>> THEN a ELSE Tail(a)
BLow(a) == IF a = <<>> THEN 0 ELSE a[1]

RECURSIVE BAddCarry(_, _, _)
BAddCarry(a, b, c) ==
    IF a = <<>> /\ b = <<>> THEN (IF c = 0 THEN <<>> ELSE <<c>>)
    ELSE LET s == BLow(a) + BLow(b) + c
         IN <<s % Base>> \o BAddCarry(BRest(a), BRest(b), s \div Base)

BAdd(a, b) == BAddCarry(a, b, 0)

\* a - b - c for a >= b + c, with leading zeros
RECURSIVE BSubBorrow(_, _, _)
BSubBorrow(a, b, c) ==
    IF a = <<>> THEN <<>>
    ELSE LET s == a[1] - BLow(b) - c
         IN <<s % Base>> \o BSubBorrow(Tail(a), BRest(b), IF s < 0 THEN 1 ELSE 0)

BSub(a, b) == BTrim(BSubBorrow(a, b, 0))

RECURSIVE BLessFrom(_, _, _)
BLessFrom(a, b, k) ==
    IF k = 0 THEN FALSE
    ELSE IF a[k] # b[k] THEN a[k] < b[k]
    ELSE BLessFrom(a, b, k - 1)

BLess(a, b) == IF Len(a) # Len(b) THEN Len(a) < Len(b) ELSE BLessFrom(a, b, Len(a))

\* a * n + c for whole numbers 0 <= n, c < 2^15
RECURSIVE BMulSmall(_, _, _)
BMulSmall(a, n, c) ==
    IF a = <<>> THEN (IF c = 0 THEN <<>> ELSE <<c>>)
    ELSE LET s == a[1] * n + c
         IN <<s % Base>> \o BMulSmall(Tail(a), n, s \div Base)

\* a * Base^w
BShlDigits(a, w) == IF a = <<>> THEN a ELSE [i \in 1..w |-> 0] \o a

RECURSIVE BMul(_, _)
BMul(a, b) ==
    IF a = <<>> \/ b = <<>> THEN <<>>
    ELSE BAdd(BTrim(BMulSmall(a, b[1], 0)), BShlDigits(BMul(a, Tail(b)), 1))

\* the number of binary digits
RECURSIVE BitLen(_)
BitLen(n) == IF n = 0 THEN 0 ELSE 1 + BitLen(n \div 2)

BBits(a) == IF a = <<>> THEN 0 ELSE 15 * (Len(a) - 1) + BitLen(a[Len(a)])

\* the binary digit of weight 2^(i - 1)
BBit(a, i) ==
    LET d == ((i - 1) \div 15) + 1
    IN IF d > Len(a) THEN 0 ELSE (a[d] \div 2^((i - 1) % 15)) % 2

\* a * 2^k and the whole part of a / 2^k
BShl(a, k) == BShlDigits(BTrim(BMulSmall(a, 2^(k % 15), 0)), k \div 15)

BShr(a, k) ==
    LET x == SubSeq(a, (k \div 15) + 1, Len(a))
        r == k % 15
    IN BTrim([i \in 1..Len(x) |->
                 (x[i] \div 2^r) + (IF i < Len(x) THEN (x[i + 1] % 2^r) * 2^(15 - r) ELSE 0)])

\* F applied 2^k times to s: 2^(k - 1) times, and 2^(k - 1) times again
RECURSIVE IterPow(_, _, _)
IterPow(F(_), s, k) ==
    IF k = 0 THEN F(s)
    ELSE Bind(IterPow(F, s, k - 1), LAMBDA t : IterPow(F, t, k - 1))

Iter64(F(_), s) == IterPow(F, s, 6)

\* one step of the long division of n by d in binary: the digits k, ..., 1
\* of n are still to be brought down, r is the remainder and q the quotient
\* so far
BDivStep(n, d, s) ==
    IF s.k = 0 THEN s
    ELSE Bind(BMulSmall(s.r, 2, BBit(n, s.k)), LAMBDA r2 :
         Bind(~BLess(r2, d), LAMBDA fits :
            [k |-> s.k - 1,
             r |-> IF fits THEN BSub(r2, d) ELSE r2,
             q |-> BMulSmall(s.q, 2, IF fits THEN 1 ELSE 0)]))

\* quotient and remainder of n by d when the quotient has at most 64 binary
\* digits; the first BBits(d) - 1 digits of n are below d
BDivMod(n, d) ==
    LET k == IF BBits(n) < BBits(d) THEN 0 ELSE BBits(n) - BBits(d) + 1
    IN Bind([k |-> k, r |-> BShr(n, k), q |-> <<>>], LAMBDA first :
          Iter64(LAMBDA s : BDivStep(n, d, s), first))

\* one step of the square root of n in binary, two digits of n brought down
\* at a time: the pairs k, ..., 1 are still to come
BSqrtStep(n, s) ==
    IF s.k = 0 THEN s
    ELSE Bind(BMulSmall(s.rem, 4, 2 * BBit(n, 2 * s.k) + BBit(n, 2 * s.k - 1)), LAMBDA rem2 :
         Bind(BMulSmall(s.root, 4, 1), LAMBDA trial :
         Bind(~BLess(rem2, trial), LAMBDA fits :
            [k |-> s.k - 1,
             root |-> BMulSmall(s.root, 2, IF fits THEN 1 ELSE 0),
             rem |-> IF fits THEN BSub(rem2, trial) ELSE rem2])))

\* whole square root and remainder of n, a number of at most 128 binary digits
BSqrt(n) ==
    Bind([k |-> (BBits(n) + 1) \div 2, root |-> <<>>, rem |-> <<>>], LAMBDA first :
        Iter64(LAMBDA s : BSqrtStep(n, s), first))

F64(sign, man, exp) == [sign |-> sign, man |-> man, exp |-> exp]
F64FromInt(n) == F64(IF n < 0 THEN 0 - 1 ELSE 1, BFromInt(Abs(n)), 0)

\* round to nearest, a tie to the even one: sign * man * 2^exp (and a little
\* more when sticky) brought to 53 binary digits
F64Round(sign, man, exp, sticky) ==
    LET k == BBits(man) - 53
    IN IF k <= 0 THEN F64(sign, man, exp)
       ELSE Bind(BShr(man, k), LAMBDA kept :
                LET rest == sticky \/ \E i \in 1..(k - 1) : BBit(man, i) = 1
                    up == BBit(man, k) = 1 /\ (rest \/ BBit(kept, 1) = 1)
                IN F64(sign, IF up THEN BAdd(kept, <<1>>) ELSE kept, exp + k))

F64Neg(a) == F64(0 - a.sign, a.man, a.exp)

F64Add(a, b) ==
    LET e == IF a.exp < b.exp THEN a.exp ELSE b.exp
    IN Bind(BShl(a.man, a.exp - e), LAMBDA x :
       Bind(BShl(b.man, b.exp - e), LAMBDA y :
       Bind(IF a.sign = b.sign THEN BAdd(x, y)
            ELSE IF BLess(x, y) THEN BSub(y, x) ELSE BSub(x, y), LAMBDA sum :
          IF sum = <<>> THEN F64(1, <<>>, 0)
          ELSE F64Round(IF a.sign # b.sign /\ BLess(x, y) THEN b.sign ELSE a.sign,
                        sum, e, FALSE))))

F64Sub(a, b) == F64Add(a, F64Neg(b))

F64Mul(a, b) ==
    Bind(BMul(a.man, b.man), LAMBDA prod :
        F64Round(a.sign * b.sign, prod, a.exp + b.exp, FALSE))

\* a / b for b # 0: at least 55 digits of the quotient, the remainder sticky
F64Div(a, b) ==
    IF a.man = <<>> THEN F64(a.sign * b.sign, <<>>, 0)
    ELSE LET need == 55 + BBits(b.man) - BBits(a.man)
             s == IF need > 0 THEN need ELSE 0
         IN Bind(BShl(a.man, s), LAMBDA n :
            Bind(BDivMod(n, b.man), LAMBDA res :
               F64Round(a.sign * b.sign, res.q, a.exp - s - b.exp, res.r # <<>>)))

\* sqrt(a) for a >= 0: at least 55 digits of the root, the remainder sticky
F64Sqrt(a) ==
    IF a.man = <<>> THEN a
    ELSE LET need == 109 - BBits(a.man)
             s0 == IF need > 0 THEN need ELSE 0
             s == s0 + ((a.exp - s0) % 2)
         IN Bind(BShl(a.man, s), LAMBDA n :
            Bind(BSqrt(n), LAMBDA res :
               F64Round(1, res.root, (a.exp - s) \div 2, res.rem # <<>>)))

\* numpy's rint: the nearest whole number, a tie to the even one
F64Rint(a) ==
    IF a.exp >= 0 THEN a.sign * BToInt(BShl(a.man, a.exp))
    ELSE LET k == 0 - a.exp
         IN Bind(BShr(a.man, k), LAMBDA kept :
               LET rest == \E i \in 1..(k - 1) : BBit(a.man, i) = 1
                   up == BBit(a.man, k) = 1 /\ (rest \/ BBit(kept, 1) = 1)
               IN a.sign * (BToInt(kept) + (IF up THEN 1 ELSE 0)))

\* one step of the group_var loop of pandas' groupby over the values x: the
\* next value updates the count, the mean and the sum of squared deviations
GroupVarStep(x, s) ==
    IF s.nobs = Len(x) THEN s
    ELSE Bind(F64FromInt(x[s.nobs + 1]), LAMBDA val :
         Bind(F64FromInt(s.nobs + 1), LAMBDA nobs :
         Bind(F64Sub(val, s.mean), LAMBDA delta :
         Bind(F64Div(delta, nobs), LAMBDA step :
         Bind(F64Add(s.mean, step), LAMBDA mean :
         Bind(F64Sub(val, mean), LAMBDA left :
         Bind(F64Mul(left, delta), LAMBDA prod :
            [nobs |-> s.nobs + 1, mean |-> mean, out |-> F64Add(s.out, prod)])))))))

RECURSIVE GroupVarFrom(_, _)
GroupVarFrom(x, s) ==
    IF s.nobs = Len(x) THEN s
    ELSE Bind(Iter64(LAMBDA t : GroupVarStep(x, t), s), LAMBDA u : GroupVarFrom(x, u))

\* the doubles groupby(...).std() and groupby(...).mean() hold for a group of
\* at least two values and of at least one
F64GroupStd(x) ==
    Bind(GroupVarFrom(x, [nobs |-> 0, mean |-> F64FromInt(0), out |-> F64FromInt(0)]),
         LAMBDA s :
    Bind(F64FromInt(Len(x) - 1), LAMBDA less :
    Bind(F64Div(s.out, less), LAMBDA var : F64Sqrt(var))))

F64GroupMean(x) ==
    Bind(F64FromInt(SumSeq(x)), LAMBDA total :
    Bind(F64FromInt(Len(x)), LAMBDA count : F64Div(total, count)))

\* numpy's round(x, 2) of a double: rint(x * 100) / 100, as hundredths
F64Round2(a) ==
    Bind(F64FromInt(100), LAMBDA hundred :
    Bind(F64Mul(a, hundred), LAMBDA scaled : F64Rint(scaled)))

\* std / mean * 100 of a group in doubles
F64CvPercent(x) ==
    Bind(F64GroupStd(x), LAMBDA std :
    Bind(F64GroupMean(x), LAMBDA mean :
    Bind(F64Div(std, mean), LAMBDA ratio :
    Bind(F64FromInt(100), LAMBDA hundred : F64Mul(ratio, hundred)))))

\* the nearest whole number to the fraction n/d (d > 0), a tie to the even one
Rint(n, d) ==
    LET fl == IF n >= 0 THEN n \div d ELSE 0 - ((0 - n + d - 1) \div d)
        twice == 2 * (n - fl * d)
    IN IF twice < d THEN fl
       ELSE IF twice > d THEN fl + 1
       ELSE IF fl % 2 = 0 THEN fl ELSE fl + 1

\* the fraction r lies exactly half way between two hundredths
HalfWay(r) == (200 * r.num) % r.den = 0 /\ ((200 * r.num) \div r.den) % 2 = 1

\* .round(2) of the double nearest to a fraction (a mean, a quartile): nan
\* and the infinities stay as they are; half way between two hundredths the
\* double decides, anywhere else the double rounds as the fraction does
Round2(x) ==
    IF x.kind # "num" THEN x
    ELSE IF HalfWay(x.val)
    THEN Bind(F64FromInt(x.val.num), LAMBDA num :
         Bind(F64FromInt(x.val.den), LAMBDA den :
         Bind(F64Div(num, den), LAMBDA a :
         Bind(F64Round2(a), LAMBDA n : Finite(Rat(n, 100))))))
    ELSE Finite(Rat(Rint(100 * x.val.num, x.val.den), 100))

\* the root of the fraction q >= 0 lies exactly half way between two
\* hundredths: 200 * sqrt(q) is an odd whole number
RootHalfWay(q) ==
    LET m == ISqrt((40000 * q.num) \div q.den)
    IN m % 2 = 1 /\ (40000 * q.num) % q.den = 0 /\ m * m = (40000 * q.num) \div q.den

\* the nearest whole number to 100 * sqrt(q) when that is not half way: with
\* m the whole part of 200 * sqrt(q), the half of m rounded up
RintRoot(q) == (ISqrt((40000 * q.num) \div q.den) + 1) \div 2

\* groupby(...).std().round(2) of a group: nan for one value; half way
\* between two hundredths the double decides
StdRound2(x) ==
    LET var == SeriesVar(x)
    IN IF var.kind # "num" THEN var
       ELSE IF RootHalfWay(var.val)
       THEN Bind(F64GroupStd(x), LAMBDA std :
            Bind(F64Round2(std), LAMBDA n : Finite(Rat(n, 100))))
       ELSE Finite(Rat(RintRoot(var.val), 100))

\* (std / mean * 100).round(2) of a group: nan and inf stay as they are; half
\* way between two hundredths the double decides
CvRound2(x) ==
    LET cv == CvPercent(x)
    IN IF cv.kind # "num" THEN cv
       ELSE IF RootHalfWay(cv.val)
       THEN Bind(F64CvPercent(x), LAMBDA a :
            Bind(F64Round2(a), LAMBDA n : Finite(Rat(n, 100))))
       ELSE Finite(Rat(cv.sign * RintRoot(cv.val), 100))

\* mutant of Improvement: the difference is divided by the best mean
ImprovementOverBestMean(mean_val, best_mean) ==
    LET diff == Rat(mean_val.num * best_mean.den - best_mean.num * mean_val.den,
                    mean_val.den * best_mean.den)
    IN IF best_mean.num = 0
       THEN (IF diff.num = 0 THEN NaN ELSE Infinity(Sign(diff.num)))
       ELSE Finite(Rat(100 * diff.num * best_mean.den, diff.den * best_mean.num))

\* ((mean_val - best_mean) / mean_val) * 100 in float64 arithmetic
Improvement(mean_val, best_mean) ==
    LET diff == Rat(mean_val.num * best_mean.den - best_mean.num * mean_val.den,
                    mean_val.den * best_mean.den)
    IN IF mean_val.num = 0
       THEN (IF diff.num = 0 THEN NaN ELSE Infinity(Sign(diff.num)))
       ELSE Finite(Rat(100 * diff.num * mean_val.den, diff.den * mean_val.num))

(***************************************************************************)
(* An analysis session: utils.py's statistics, ranking, plotting and       *)
(* export functions and the report's table builders, called in any order   *)
(* on the data load_all_algorithm_results returned.  A frame is the list   *)
(* of its rows; the fields of a row are the frame's columns.               *)
(***************************************************************************)
MaxOps == 2     \* most operations called in one session

\* run records of one instance: algorithm, objective value, time
RunsScenario == <<Run(Greedy1, 100, 5), Run(Greedy2, 90, 6), Run(Regret, 110, 7)>>
RunsEqualMean == <<Run(Greedy1, 100, 5), Run(Greedy2, 90, 6), Run(Regret, 95, 7),
                   Run(Regret, 95, 8)>>
RunsEqualStd == <<Run(Greedy1, 96, 5), Run(Greedy2, 94, 6), Run(Regret, 94, 7),
                  Run(Regret, 96, 8)>>
RunsZeroMean == <<Run(Greedy1, 0, 5), Run(Greedy2, 0, 6), Run(Regret, 0 - 1, 7),
                  Run(Regret, 1, 8)>>

RunsThree == <<Run(Greedy1, 100, 5), Run(Regret, 110, 7), Run(AlgB, 120, 9)>>

\* four algorithms of two runs each, the means 3, 5, 8, 37 and 40 apart
RunsFour == <<Run(Greedy1, 100, 5), Run(Greedy2, 101, 6), Run(Regret, 103, 7),
              Run(Regret, 104, 8), Run(AlgB, 108, 9), Run(AlgB, 109, 9),
              Run(AlgUnder, 140, 4), Run(AlgUnder, 141, 4)>>

\* orders in which the records of a results file can be listed: as given or
\* reversed, starting from any record
Orders(q) ==
    LET n == Len(q)
    IN { [k \in 1..n |-> q[((k + r - 1) % n) + 1]] : r \in 0..(n - 1) }
       \cup { [k \in 1..n |-> q[n - ((k + r - 1) % n)]] : r \in 0..(n - 1) }

\* three runs of greedy with the standard deviation 23 and the mean 160:
\* std / mean * 100 is 14.375, half way between 14.37 and 14.38
RunsHalfWay == <<Run(Greedy1, 137, 5), Run(Greedy2, 160, 6),
                 Run(Greedy1, 183, 7), Run(Regret, 200, 8)>>

AnalysisFrames ==
    Orders(RunsScenario) \cup Orders(RunsEqualMean) \cup Orders(RunsEqualStd)
    \cup Orders(RunsZeroMean) \cup Orders(RunsThree) \cup {RunsFour, RunsHalfWay}

\* one entry of a summary digest's algorithm_statistics; validated is "absent"
\* when the entry has no best_solution_validated key
AlgorithmStatistics(a, runs, lo, hi, avg, validated) ==
    [algorithm |-> a, total_runs |-> runs, min_objective |-> lo, max_objective |-> hi,
     avg_objective |-> avg, best_solution_validated |-> validated]

\* a summary file, and the None that stands for a missing one
Summary(entries) == [exists |-> TRUE, algorithm_statistics |-> entries]
NoSummary == [exists |-> FALSE, algorithm_statistics |-> <<>>]

SummaryScenario ==
    Summary(<<AlgorithmStatistics(Greedy1, 1, 100, 100, 100, "true"),
              AlgorithmStatistics(Greedy2, 1, 90, 90, 90, "false"),
              AlgorithmStatistics(Regret, 1, 110, 110, 110, "absent")>>)

Dataset(inst, df, viz, summary) ==
    [instance |-> inst, df |-> df, viz_data |-> viz, summary_data |-> summary]

\* the loaded data of a session.  One instance: any frame with neither
\* optional piece, or the scenario's records with a payload and with or
\* without a digest.  Two instances: the first with a digest and no payload,
\* the second with neither.
AnalysisData ==
    { <<Dataset(InstX, df, NoViz, NoSummary)>> : df \in AnalysisFrames }
    \cup { <<Dataset(InstX, RunsScenario, Viz(NodesVaried, <<Sol(AlgB, TraceGood)>>),
                     SummaryScenario)>>,
           <<Dataset(InstX, RunsScenario,
                     Viz(NodesVaried, <<Sol(AlgUnder, TraceFailed), Sol(AlgB, TracePartial)>>),
                     NoSummary)>> }
    \cup { <<Dataset(InstX, df, NoViz, SummaryScenario),
              Dataset(InstXa, RunsScenario, NoViz, NoSummary)>> :
              df \in {RunsScenario, RunsEqualMean} }

InitAnalysis ==
    /\ label = <<>>
    /\ tHist = <<>>
    /\ uHist = <<>>
    /\ algorithm_data \in AnalysisData
    /\ instances = [k \in 1..Len(algorithm_data) |-> algorithm_data[k].instance]
    /\ fsResults = <<>>
    /\ fsViz = <<>>
    /\ pc = "analysis"
    /\ dirs = {}
    /\ images = <<>>
    /\ visualizations = <<>>
    /\ plotIdx = 0
    /\ report = NoReport
    /\ error = NoError
    /\ exit_code = Running
    /\ NoAnalysis

\* df['algorithm'].str.replace(r'_start\d+', '', regex=True)
BaseColumn(df) == [k \in 1..Len(df) |-> BaseAlgorithm(df[k].algorithm)]

\* df[name] = values: the column is added to (or replaced in) every row
AddColumn(df, name, values) == [k \in 1..Len(df) |-> Put(df[k], name, values[k])]

\* Series.unique(): the distinct values in order of first appearance
RECURSIVE UniqueFrom(_, _)
UniqueFrom(q, seen) ==
    IF q = <<>> THEN <<>>
    ELSE IF Head(q) \in seen THEN UniqueFrom(Tail(q), seen)
    ELSE <<Head(q)>> \o UniqueFrom(Tail(q), seen \cup {Head(q)})

Unique(q) == UniqueFrom(q, {})

\* mutant of BaseGroup: only the first run of the group
BaseGroupFirstRun(df, a, field) ==
    <<df[CHOOSE k \in 1..Len(df) :
            /\ BaseAlgorithm(df[k].algorithm) = a
            /\ \A j \in 1..(k - 1) : BaseAlgorithm(df[j].algorithm) # a][field]>>

\* df[df['base_algorithm'] == a][field]
RECURSIVE BaseGroup(_, _, _)
BaseGroup(df, a, field) ==
    IF df = <<>> THEN <<>>
    ELSE (IF BaseAlgorithm(Head(df).algorithm) = a THEN <<Head(df)[field]>> ELSE <<>>)
         \o BaseGroup(Tail(df), a, field)

\* the values of a series in ascending order
RECURSIVE SortedValues(_)
SortedValues(q) ==
    IF q = <<>> THEN <<>>
    ELSE LET k == CHOOSE k \in 1..Len(q) : \A j \in 1..Len(q) : q[k] <= q[j]
         IN <<q[k]>> \o SortedValues([j \in 1..(Len(q) - 1) |-> IF j < k THEN q[j] ELSE q[j + 1]])

\* Series.quantile(quarters / 4), linear interpolation between order statistics
Quantile(q, quarters) ==
    LET sv == SortedValues(q)
        pos == quarters * (Len(q) - 1)
        lo == (pos \div 4) + 1
        hi == IF lo < Len(q) THEN lo + 1 ELSE lo
    IN Rat(4 * sv[lo] + (pos % 4) * (sv[hi] - sv[lo]), 4)

\* stats_summary of export_statistics_summary for one frame
StatsSummary(df) ==
    [a \in Range(BaseColumn(df)) |->
        LET algo_data == BaseGroup(df, a, "objective_value")
        IN [count |-> Len(algo_data),
            mean |-> Finite(SeriesMean(algo_data)),
            var |-> SeriesVar(algo_data),
            min |-> SeqMin(algo_data),
            max |-> SeqMax(algo_data),
            q1 |-> Quantile(algo_data, 1),
            q3 |-> Quantile(algo_data, 3),
            cv_percent |-> CvPercent(algo_data)]]

(***************************************************************************)
(* VisualizationExporter: file names.  The clock counts half seconds, and   *)
(* the timestamp of a file name keeps whole seconds only.                   *)
(***************************************************************************)
\* the instants datetime.now() can return at the next call: later than the
\* last reading, within the same second or a later one
Instants == {clock + 1, clock + 2}

\* filename_suffix of the session's export calls: the default
DefaultSuffix == <<>>

\* datetime.strftime("%Y%m%d_%H%M%S") of an instant (in half seconds) of the
\* session's first minute: the fraction of the second is dropped
Timestamp(t) ==
    LET second == t \div 2
    IN <<"2", "0", "2", "5", "0", "1", "0", "1", "_", "1", "2", "0", "0">>
       \o <<Ascii[17 + (second \div 10)], Ascii[17 + (second % 10)]>>

\* f"{instance_name}_{kind}{filename_suffix}_{timestamp}.{ext}"
ExportName(instance_name, kind, filename_suffix, timestamp, ext) ==
    instance_name \o <<"_">> \o kind \o filename_suffix \o <<"_">> \o timestamp
    \o <<".">> \o ext

\* the files export_statistics_summary writes, instance by instance: the JSON
\* digest and the CSV of the run records.  Each file is held with the number
\* of the session's operation that wrote it.
StatisticsFiles(ad, run, suffix, timestamp) ==
    Flatten([k \in 1..Len(ad) |->
        << [run |-> run,
            path |-> ExportName(ad[k].instance, <<"s", "t", "a", "t", "i", "s", "t", "i", "c", "s">>,
                                suffix, timestamp, <<"j", "s", "o", "n">>)],
           [run |-> run,
            path |-> ExportName(ad[k].instance, <<"r", "a", "w", "_", "d", "a", "t", "a">>,
                                suffix, timestamp, <<"c", "s", "v">>)] >>])

\* the files export_visualization_plots writes into plots/: the best-solutions
\* plot of an instance with a payload, and the performance plot
PlotFiles(ad, run, suffix, timestamp) ==
    LET plots_dir == <<"p", "l", "o", "t", "s", "/">>
        png == <<"p", "n", "g">>
    IN Flatten([k \in 1..Len(ad) |->
          (IF ad[k].viz_data.exists
           THEN << [run |-> run,
                    path |-> plots_dir
                             \o ExportName(ad[k].instance,
                                           <<"b", "e", "s", "t", "_", "s", "o", "l", "u", "t", "i", "o", "n", "s">>,
                                           suffix, timestamp, png)] >>
           ELSE <<>>)
          \o << [run |-> run,
                 path |-> plots_dir
                          \o ExportName(ad[k].instance,
                                        <<"p", "e", "r", "f", "o", "r", "m", "a", "n", "c", "e">>,
                                        suffix, timestamp, png)] >>])

\* the files export_best_solutions_data writes: one per instance with a payload
BestSolutionsFiles(ad, run, suffix, timestamp) ==
    Flatten([k \in 1..Len(ad) |->
        IF ad[k].viz_data.exists
        THEN << [run |-> run,
                 path |-> ExportName(ad[k].instance,
                                     <<"b", "e", "s", "t", "_", "s", "o", "l", "u", "t", "i", "o", "n", "s">>,
                                     suffix, timestamp, <<"j", "s", "o", "n">>)] >>
        ELSE <<>>])

\* _generate_objective_table and _generate_time_table: each works on
\* instance_data['df'].copy()
GenerateTables ==
    /\ pc = "analysis"
    /\ Len(ops) < MaxOps
    /\ TableError(algorithm_data) = NoError
    /\ ops' = Append(ops, "tables")
    /\ tables' = [objective |-> _generate_objective_table(algorithm_data, instances),
                  time |-> _generate_time_table(algorithm_data, instances)]
    /\ UNCHANGED <<ranking, analysis, statistics, plots>>
    /\ UNCHANGED runVars
    /\ UNCHANGED canonVars
    /\ UNCHANGED extVars

\* VisualizationExporter.export_statistics_summary: df is instance_data['df']
\* itself, and the base_algorithm column is assigned to it
ExportStatisticsSummary ==
    /\ pc = "analysis"
    /\ Len(ops) < MaxOps
    /\ ops' = Append(ops, "export_statistics_summary")
    /\ \E t \in Instants :
          /\ clock' = t
          /\ exports' = exports \o StatisticsFiles(algorithm_data, Len(ops) + 1, DefaultSuffix,
                                                   Timestamp(t))
    /\ algorithm_data' =
          [k \in 1..Len(algorithm_data) |->
              [algorithm_data[k] EXCEPT
                  !.df = AddColumn(@, "base_algorithm", BaseColumn(@))]]
    /\ statistics' = [inst \in Keys(algorithm_data) |->
                         StatsSummary(Entry(algorithm_data, inst).df)]
    /\ UNCHANGED <<ranking, analysis, tables, plots>>
    /\ UNCHANGED <<instances, fsResults, fsViz, pc, dirs, images, visualizations,
                   plotIdx, report, error, exit_code>>
    /\ UNCHANGED canonVars
    /\ UNCHANGED <<tests, displayed, calls>>

\* mutant of MeanOrders: the arrangements in descending order of the means
MeanOrdersDescending(means) ==
    { p \in Permutations(1..Len(means)) :
        \A i, j \in 1..Len(means) : i < j => ~RatLess(means[p[i]], means[p[j]]) }

\* sort_values(by the means): every arrangement of 1..n in ascending order of
\* the means.  The default sort kind is quicksort, which is not stable, so
\* entries with equal means come out in an order the build decides.
MeanOrders(means) ==
    { p \in Permutations(1..Len(means)) :
        \A i, j \in 1..Len(means) : i < j => ~RatLess(means[p[j]], means[p[i]]) }

\* ranking_data of one instance: one row per base algorithm, in unique() order
RankingData(inst, df) ==
    LET algorithms == Unique(BaseColumn(df))
    IN [k \in 1..Len(algorithms) |->
          LET objective == BaseGroup(df, algorithms[k], "objective_value")
              time == BaseGroup(df, algorithms[k], "computation_time_ms")
          IN [Instance |-> inst,
              Algorithm |-> algorithms[k],
              Mean_Objective |-> SeriesMean(objective),
              Std_Objective_sq |-> SeriesVar(objective),
              Best_Objective |-> SeqMin(objective),
              Worst_Objective |-> SeqMax(objective),
              Mean_Time_ms |-> SeriesMean(time),
              Runs |-> Len(objective)]]

\* instance_ranking sorted as p arranges it, with the Rank column, and the
\* best-against-worst improvement printed under it
InstanceRanking(rows, p) ==
    LET sorted == [k \in 1..Len(rows) |-> rows[p[k]]]
    IN [rows |-> [k \in 1..Len(sorted) |-> Put(sorted[k], "Rank", k)],
        best |-> sorted[1].Algorithm,
        worst |-> sorted[Len(sorted)].Algorithm,
        improvement |-> Improvement(sorted[Len(sorted)].Mean_Objective,
                                    sorted[1].Mean_Objective)]

\* the rankings that can be displayed for one instance
InstanceRankings(inst, df) ==
    LET rows == RankingData(inst, df)
    IN { InstanceRanking(rows, p) :
           p \in MeanOrders([j \in 1..Len(rows) |-> rows[j].Mean_Objective]) }

\* the rankings create_performance_ranking can display for the loaded data,
\* instance by instance
RECURSIVE Rankings(_)
Rankings(ad) ==
    IF ad = <<>> THEN {<<>>}
    ELSE { <<r>> \o rest : r \in InstanceRankings(Head(ad).instance, Head(ad).df),
                           rest \in Rankings(Tail(ad)) }

\* a per-instance list of results as a mapping from the instance names
ByInstance(ad, results) ==
    [inst \in Keys(ad) |-> results[CHOOSE k \in 1..Len(ad) : ad[k].instance = inst]]

\* create_performance_ranking: works on df.copy()
CreatePerformanceRanking ==
    /\ pc = "analysis"
    /\ Len(ops) < MaxOps
    /\ ops' = Append(ops, "create_performance_ranking")
    /\ \E results \in Rankings(algorithm_data) :
          ranking' = ByInstance(algorithm_data, results)
    /\ UNCHANGED <<analysis, statistics, tables, plots>>
    /\ UNCHANGED runVars
    /\ UNCHANGED canonVars
    /\ UNCHANGED extVars

\* groupby('base_algorithm')['objective_value'].mean(): the keys in sorted order
GroupMeans(df) ==
    LET keys == Sorted(Range(BaseColumn(df)))
    IN [k \in 1..Len(keys) |->
          [algorithm |-> keys[k],
           mean |-> SeriesMean(BaseGroup(df, keys[k], "objective_value"))]]

\* stats_df of perform_statistical_analysis: count, mean, std, min, max and
\* the two quartiles of every group, rounded to two decimals, under the
\* columns Count, Mean, Std, Min, Max, Q1, Q3
RoundedStats(df) ==
    [a \in Range(BaseColumn(df)) |->
        LET x == BaseGroup(df, a, "objective_value")
        IN [Count |-> Len(x),
            Mean |-> Round2(Finite(SeriesMean(x))),
            Std |-> StdRound2(x),
            Min |-> SeqMin(x),
            Max |-> SeqMax(x),
            Q1 |-> Round2(Finite(Quantile(x, 1))),
            Q3 |-> Round2(Finite(Quantile(x, 3)))]]

\* what perform_statistical_analysis reports for one instance when
\* sort_values arranges the means as p: the descriptive statistics and the
\* coefficients of variation (both rounded to two decimals), the means in
\* ascending order, the best algorithm and the improvement over every other
\* one
InstanceAnalysis(df, p) ==
    LET algo_means == [k \in 1..Len(GroupMeans(df)) |-> GroupMeans(df)[p[k]]]
        best_mean == algo_means[1].mean
    IN [stats_df |-> RoundedStats(df),
        cv |-> [a \in Range(BaseColumn(df)) |->
                   CvRound2(BaseGroup(df, a, "objective_value"))],
        algo_means |-> algo_means,
        best |-> algo_means[1].algorithm,
        improvement |-> [k \in 1..(Len(algo_means) - 1) |->
                            [algorithm |-> algo_means[k + 1].algorithm,
                             improvement |-> Improvement(algo_means[k + 1].mean, best_mean)]]]

InstanceAnalyses(df) ==
    LET means == GroupMeans(df)
    IN { InstanceAnalysis(df, p) :
           p \in MeanOrders([j \in 1..Len(means) |-> means[j].mean]) }

RECURSIVE Analyses(_)
Analyses(ad) ==
    IF ad = <<>> THEN {<<>>}
    ELSE { <<r>> \o rest : r \in InstanceAnalyses(Head(ad).df), rest \in Analyses(Tail(ad)) }

\* perform_statistical_analysis: works on df.copy()
PerformStatisticalAnalysis ==
    /\ pc = "analysis"
    /\ Len(ops) < MaxOps
    /\ ops' = Append(ops, "perform_statistical_analysis")
    /\ \E results \in Analyses(algorithm_data) :
          analysis' = ByInstance(algorithm_data, results)
    /\ UNCHANGED <<ranking, statistics, tables, plots>>
    /\ UNCHANGED runVars
    /\ UNCHANGED canonVars
    /\ UNCHANGED extVars

\* one figure of utils.plot_best_solutions: drawn as _create_solution_plot
\* draws it, and shown instead of saved
ShownFigure(inst, viz_data, sol) ==
    Put(Figure([instance_name |-> inst, algorithm |-> sol.algorithm,
                solution_data |-> sol.solution_data, viz_data |-> viz_data]),
        "renderer", "plot_best_solutions")

\* one subplot of the exporter's best-solutions plot: every node in light gray
\* at s=20, the selected nodes by cost, the route, the arrows and the title
ExportedFigure(inst, viz_data, sol) ==
    LET nodes == viz_data.nodes
        trace == sol.solution_data
    IN [renderer |-> "export_visualization_plots",
        instance_name |-> inst,
        algorithm |-> sol.algorithm,
        node_sizes |-> [k \in 1..Len(nodes) |-> [num |-> 20, den |-> 1]],
        selected |-> SelectedMarkers(nodes, trace.selected_nodes),
        route_coords |-> RouteCoords(nodes, trace.route),
        arrows |-> Arrows(RouteCoords(nodes, trace.route), Len(trace.route)),
        validated_text |-> IF trace.is_validated THEN "Validated: YES" ELSE "Validated: NO"]

\* the figures plot_best_solutions shows: per instance with a payload, one per
\* best solution
RECURSIVE ShownFigures(_)
ShownFigures(ad) ==
    IF ad = <<>> THEN <<>>
    ELSE (IF ~Head(ad).viz_data.exists THEN <<>>
          ELSE [j \in 1..Len(Head(ad).viz_data.best_solutions) |->
                   ShownFigure(Head(ad).instance, Head(ad).viz_data,
                               Head(ad).viz_data.best_solutions[j])])
         \o ShownFigures(Tail(ad))

RECURSIVE ExportedFigures(_)
ExportedFigures(ad) ==
    IF ad = <<>> THEN <<>>
    ELSE (IF ~Head(ad).viz_data.exists THEN <<>>
          ELSE [j \in 1..Len(Head(ad).viz_data.best_solutions) |->
                   ExportedFigure(Head(ad).instance, Head(ad).viz_data,
                                  Head(ad).viz_data.best_solutions[j])])
         \o ExportedFigures(Tail(ad))

\* utils.plot_best_solutions
PlotBestSolutions ==
    /\ pc = "analysis"
    /\ Len(ops) < MaxOps
    /\ ops' = Append(ops, "plot_best_solutions")
    /\ plots' = plots \o ShownFigures(algorithm_data)
    /\ UNCHANGED <<ranking, analysis, statistics, tables>>
    /\ UNCHANGED runVars
    /\ UNCHANGED canonVars
    /\ UNCHANGED extVars

\* VisualizationExporter.export_visualization_plots: per instance the
\* best-solutions plot (with a payload) and the performance plot, whose df is
\* instance_data['df'] itself with the base_algorithm column assigned to it
ExportVisualizationPlots ==
    /\ pc = "analysis"
    /\ Len(ops) < MaxOps
    /\ ops' = Append(ops, "export_visualization_plots")
    /\ \E t \in Instants :
          /\ clock' = t
          /\ exports' = exports \o PlotFiles(algorithm_data, Len(ops) + 1, DefaultSuffix,
                                             Timestamp(t))
    /\ plots' = plots \o ExportedFigures(algorithm_data)
    /\ algorithm_data' =
          [k \in 1..Len(algorithm_data) |->
              [algorithm_data[k] EXCEPT
                  !.df = AddColumn(@, "base_algorithm", BaseColumn(@))]]
    /\ UNCHANGED <<ranking, analysis, statistics, tables>>
    /\ UNCHANGED <<instances, fsResults, fsViz, pc, dirs, images, visualizations,
                   plotIdx, report, error, exit_code>>
    /\ UNCHANGED canonVars
    /\ UNCHANGED <<tests, displayed, calls>>

(***************************************************************************)
(* utils.perform_statistical_tests: pairwise t-tests per instance.  The     *)
(* record kept is the line printed per comparison; the ANOVA lines printed  *)
(* after the pairs are not part of it.                                      *)
(***************************************************************************)
\* a t-test result whose statistic and p-value are nan
NoTest == [kind |-> "nan", sign |-> 0, tsq |-> NaN, df |-> 0]

\* the equal-variance t-test from the two sample variances v1, v2 (fractions):
\* df = n1 + n2 - 2, svar = ((n1 - 1) * v1 + (n2 - 1) * v2) / df,
\* t = (mean1 - mean2) / sqrt(svar * (1/n1 + 1/n2)).  The result holds the
\* sign of t, its square and df, which determine the two-sided p-value;
\* 0/0 gives nan, and x/0 an infinite t with p-value 0.
PooledTest(data1, data2, v1, v2) ==
    LET n1 == Len(data1)
        n2 == Len(data2)
        df == n1 + n2 - 2
        m1 == SeriesMean(data1)
        m2 == SeriesMean(data2)
        diff == Rat(m1.num * m2.den - m2.num * m1.den, m1.den * m2.den)
        weighted == Rat((n1 - 1) * v1.num * v2.den + (n2 - 1) * v2.num * v1.den,
                        v1.den * v2.den)
    IN IF df = 0 THEN NoTest
       ELSE LET svar == Rat(weighted.num, weighted.den * df)
                denom_sq == Rat(svar.num * (n1 + n2), svar.den * n1 * n2)
            IN IF denom_sq.num = 0
               THEN (IF diff.num = 0 THEN NoTest
                     ELSE [kind |-> "num", sign |-> Sign(diff.num),
                           tsq |-> Infinity(1), df |-> df])
               ELSE [kind |-> "num", sign |-> Sign(diff.num),
                     tsq |-> Finite(Rat(diff.num * diff.num * denom_sq.den,
                                        diff.den * diff.den * denom_sq.num)),
                     df |-> df]

\* the variance of a sample as a fraction; 0 stands in where it is undefined
VarOrZero(q) == IF Len(q) < 2 THEN Rat(0, 1) ELSE SeriesVar(q).val

\* stats.ttest_ind(data1, data2) of two non-empty samples: the results the
\* installed SciPy can give.  With two samples of two or more values it is the
\* pooled test.  With a single-value sample the sample variance is nan: a
\* SciPy that pools the variances as they are returns nan, one that takes the
\* variance of a single observation as zero returns the pooled test (which is
\* nan again when both samples hold one value, df = 0).
ttest_ind(data1, data2) ==
    IF Len(data1) >= 2 /\ Len(data2) >= 2
    THEN {PooledTest(data1, data2, VarOrZero(data1), VarOrZero(data2))}
    ELSE {NoTest, PooledTest(data1, data2, VarOrZero(data1), VarOrZero(data2))}

\* p_value < thousandths / 1000 for the result of a t-test.  Every comparison
\* with nan is False.  For df = 2 the two-sided p-value is
\* 1 - sqrt(t^2 / (t^2 + 2)), below c when t^2 * (1 - (1 - c)^2) > 2 * (1 - c)^2;
\* for df = 1 it is 1 - (2/pi) * atan(|t|), which is
\* below 0.05, 0.01, 0.001 when t^2 exceeds tan^2 of 0.475 pi, 0.495 pi,
\* 0.4995 pi.  The two groups of a comparison in the sessions hold at most
\* four runs together, so df <= 2.
PBelow(res, thousandths) ==
    IF res.kind = "nan" THEN FALSE
    ELSE IF res.tsq.kind = "inf" THEN TRUE
    ELSE LET a == res.tsq.val.num
             b == res.tsq.val.den
             keep == 1000 - thousandths
         IN CASE res.df = 2 -> a * (1000000 - keep * keep) > 2 * b * keep * keep
              [] res.df = 1 ->
                    CASE thousandths = 50 -> a * 10000 > 1614476 * b
                      [] thousandths = 10 -> a * 10000 > 40521807 * b
                      [] thousandths = 1 -> a * 100 > 40528407 * b

\* "***" if p_value < 0.001 else "**" if p_value < 0.01 else "*" if
\* p_value < 0.05 else "ns"
Significance(res) ==
    IF PBelow(res, 1) THEN "***"
    ELSE IF PBelow(res, 10) THEN "**"
    ELSE IF PBelow(res, 50) THEN "*"
    ELSE "ns"

\* mutant of Pairs: every ordered pair of different positions
PairsBothOrders(n) ==
    Flatten([i \in 1..n |->
        Flatten([j \in 1..n |-> IF i # j THEN << <<i, j>> >> ELSE <<>>])])

\* the (i, j) the nested enumerate loops reach with i < j, in loop order
Pairs(n) ==
    Flatten([i \in 1..n |->
        Flatten([j \in 1..n |-> IF i < j THEN << <<i, j>> >> ELSE <<>>])])

\* the line printed for one comparison
Comparison(algo1, algo2, res) ==
    [algo1 |-> algo1, algo2 |-> algo2, test |-> res, significance |-> Significance(res)]

\* the lists of comparisons that can be printed for the pairs from position k
\* on: one line per pair, each with a result ttest_ind can give
RECURSIVE ComparisonsFrom(_, _, _, _)
ComparisonsFrom(df, algorithms, pairs, k) ==
    IF k > Len(pairs) THEN {<<>>}
    ELSE LET algo1 == algorithms[pairs[k][1]]
             algo2 == algorithms[pairs[k][2]]
         IN { <<Comparison(algo1, algo2, res)>> \o rest :
                 res \in ttest_ind(BaseGroup(df, algo1, "objective_value"),
                                   BaseGroup(df, algo2, "objective_value")),
                 rest \in ComparisonsFrom(df, algorithms, pairs, k + 1) }

\* what perform_statistical_tests can print for one instance: df.copy(), the
\* base_algorithm column, its unique() values, the pairs
InstanceTests(df) ==
    LET algorithms == Unique(BaseColumn(df))
    IN ComparisonsFrom(df, algorithms, Pairs(Len(algorithms)), 1)

RECURSIVE Tests(_)
Tests(ad) ==
    IF ad = <<>> THEN {<<>>}
    ELSE { <<r>> \o rest : r \in InstanceTests(Head(ad).df), rest \in Tests(Tail(ad)) }

\* perform_statistical_tests: works on df.copy()
PerformStatisticalTests ==
    /\ pc = "analysis"
    /\ Len(ops) < MaxOps
    /\ ops' = Append(ops, "perform_statistical_tests")
    /\ \E results \in Tests(algorithm_data) :
          tests' = ByInstance(algorithm_data, results)
    /\ UNCHANGED <<displayed, exports, clock, calls>>
    /\ UNCHANGED <<ranking, analysis, statistics, tables, plots>>
    /\ UNCHANGED runVars
    /\ UNCHANGED canonVars

\* the table display_algorithm_statistics prints for one instance: one row per
\* entry of the digest, stats.get('best_solution_validated', False) as YES / NO
DisplayedTable(inst, summary) ==
    [instance |-> inst,
     rows |-> [k \in 1..Len(summary.algorithm_statistics) |->
                  LET stats == summary.algorithm_statistics[k]
                  IN [algorithm |-> stats.algorithm,
                      runs |-> stats.total_runs,
                      min |-> stats.min_objective,
                      max |-> stats.max_objective,
                      average |-> stats.avg_objective,
                      validated |-> IF stats.best_solution_validated = "true"
                                    THEN "YES" ELSE "NO"]]]

\* the loop of display_algorithm_statistics from the head of ad on:
\* summary['algorithm_statistics'] raises TypeError when summary is None, and
\* the tables of the instances before it have been printed
RECURSIVE DisplayFrom(_)
DisplayFrom(ad) ==
    IF ad = <<>> THEN [printed |-> <<>>, raised |-> NoError]
    ELSE IF ~Head(ad).summary_data.exists THEN [printed |-> <<>>, raised |-> "TypeError"]
    ELSE LET rest == DisplayFrom(Tail(ad))
         IN [printed |-> <<DisplayedTable(Head(ad).instance, Head(ad).summary_data)>>
                         \o rest.printed,
             raised |-> rest.raised]

\* utils.display_algorithm_statistics
DisplayAlgorithmStatistics ==
    /\ pc = "analysis"
    /\ Len(ops) < MaxOps
    /\ ops' = Append(ops, "display_algorithm_statistics")
    /\ displayed' = displayed \o DisplayFrom(algorithm_data).printed
    /\ error' = IF DisplayFrom(algorithm_data).raised # NoError
                THEN DisplayFrom(algorithm_data).raised ELSE error
    /\ UNCHANGED <<tests, exports, clock, calls>>
    /\ UNCHANGED <<ranking, analysis, statistics, tables, plots>>
    /\ UNCHANGED <<instances, fsResults, fsViz, pc, algorithm_data, dirs, images,
                   visualizations, plotIdx, report, exit_code>>
    /\ UNCHANGED canonVars

\* VisualizationExporter.export_best_solutions_data: an instance without a
\* payload is passed over
ExportBestSolutionsData ==
    /\ pc = "analysis"
    /\ Len(ops) < MaxOps
    /\ ops' = Append(ops, "export_best_solutions_data")
    /\ \E t \in Instants :
          /\ clock' = t
          /\ exports' = exports \o BestSolutionsFiles(algorithm_data, Len(ops) + 1, DefaultSuffix,
                                                      Timestamp(t))
    /\ UNCHANGED <<tests, displayed, calls>>
    /\ UNCHANGED <<ranking, analysis, statistics, tables, plots>>
    /\ UNCHANGED runVars
    /\ UNCHANGED canonVars

NextAnalysis ==
    \/ GenerateTables
    \/ ExportStatisticsSummary
    \/ CreatePerformanceRanking
    \/ PerformStatisticalAnalysis
    \/ PlotBestSolutions
    \/ ExportVisualizationPlots
    \/ PerformStatisticalTests
    \/ DisplayAlgorithmStatistics
    \/ ExportBestSolutionsData

SpecAnalysis == InitAnalysis /\ [][NextAnalysis]_vars

(***************************************************************************)
(* Claims on the analysis session                                          *)
(***************************************************************************)
\* C11: no operation changes a loaded dataset: across every step of a session
\* each instance's frame keeps its columns and its values.
C11_DatasetsNeverMutated ==
    [][algorithm_data' = algorithm_data]_vars

\* row a may stand before row b: smaller mean; on equal means smaller standard
\* deviation (when both are numbers); on equal means and deviations smaller name
MayPrecede(a, b) ==
    \/ RatLess(a.Mean_Objective, b.Mean_Objective)
    \/ /\ a.Mean_Objective = b.Mean_Objective
       /\ \/ a.Std_Objective_sq.kind # "num"
          \/ b.Std_Objective_sq.kind # "num"
          \/ RatLess(a.Std_Objective_sq.val, b.Std_Objective_sq.val)
          \/ /\ a.Std_Objective_sq.val = b.Std_Objective_sq.val
             /\ StrLess(a.Algorithm, b.Algorithm)

\* C12: a displayed ranking lists every canonical algorithm of the instance
\* exactly once with the ranks 1..n, in ascending order of the mean objective,
\* equal means in ascending order of the standard deviation, and equal means
\* and deviations in lexicographic order of the name.
C12_RankingTotalOrder ==
    \A inst \in DOMAIN ranking :
        LET rows == ranking[inst].rows
        IN /\ {rows[k].Algorithm : k \in 1..Len(rows)}
                 = Range(BaseColumn(Entry(algorithm_data, inst).df))
           /\ \A i, j \in 1..Len(rows) : i < j => rows[i].Algorithm # rows[j].Algorithm
           /\ \A k \in 1..Len(rows) : rows[k].Rank = k
           /\ \A i, j \in 1..Len(rows) : i < j => MayPrecede(rows[i], rows[j])

\* the marker sizes of a figure are those of the interpolation: node k at
\* 50 + 200 * (cost - min_cost) / (max_cost - min_cost) over all the nodes,
\* which lies in [50, 250]
InterpolatedSizes(fig, nodes) ==
    LET lo == SeqMin(NodeCosts(nodes))
        hi == SeqMax(NodeCosts(nodes))
    IN /\ Len(fig.node_sizes) = Len(nodes)
       /\ \A k \in 1..Len(nodes) :
             LET size == fig.node_sizes[k]
             IN /\ size.den > 0
                /\ (size.num - 50 * size.den) * (hi - lo) = 200 * (nodes[k].cost - lo) * size.den
                /\ 50 * size.den <= size.num /\ size.num <= 250 * size.den
                /\ (nodes[k].cost = lo => size.num = 50 * size.den)
                /\ (nodes[k].cost = hi => size.num = 250 * size.den)

\* C15: in every figure a renderer of best solutions has drawn, the exporter's
\* plot included, every node of the instance has the interpolated marker size.
C15_MarkerSizeInterpolated ==
    \A k \in 1..Len(plots) :
        InterpolatedSizes(plots[k], Entry(algorithm_data, plots[k].instance_name).viz_data.nodes)

\* the mean objective of a canonical algorithm in the loaded frame of an instance
MeanOf(inst, a) == SeriesMean(BaseGroup(Entry(algorithm_data, inst).df, a, "objective_value"))

\* a group's statistics are those of a degenerate group done right: with one
\* sample the standard deviation and the coefficient of variation are nan, and
\* with a mean of zero the coefficient of variation is nan
DegenerateAsNaN(count, mean, var, cv) ==
    /\ (count = 1 => var.kind = "nan" /\ cv.kind = "nan")
    /\ (mean.num = 0 => cv.kind = "nan")

\* C19: the descriptive statistics of a degenerate group are computed, and
\* the undefined ones are not-a-number: for a single-sample group the standard
\* deviation and cv_percent, for a group with mean zero cv_percent (never an
\* infinity), in the exported summary and in the statistical analysis.
C19_DegenerateStatisticsAreNaN ==
    /\ \A inst \in DOMAIN statistics : \A a \in DOMAIN statistics[inst] :
          LET st == statistics[inst][a]
          IN DegenerateAsNaN(st.count, st.mean.val, st.var, st.cv_percent)
    /\ \A inst \in DOMAIN analysis : \A a \in DOMAIN analysis[inst].cv :
          LET st == analysis[inst].stats_df[a]
          IN DegenerateAsNaN(st.Count, MeanOf(inst, a), st.Std, analysis[inst].cv[a])

\* v is (mean - best) / mean * 100 for a mean that is not zero:
\* v * mean = 100 * (mean - best), in whole numbers
IsImprovement(v, mean, best) ==
    /\ v.kind = "num"
    /\ v.val.num * mean.num * best.den
          = 100 * v.val.den * (mean.num * best.den - best.num * mean.den)

\* C20: the statistical analysis reports an improvement for every canonical
\* algorithm of the instance but the best one, whose mean is the smallest, and
\* the value is (algorithm_mean - best_mean) / algorithm_mean * 100, the
\* divisor being the algorithm's own mean; the ranking's best-against-worst
\* figure is the same formula for the worst algorithm.
C20_ImprovementOverBest ==
    /\ \A inst \in DOMAIN analysis :
          LET names == Range(BaseColumn(Entry(algorithm_data, inst).df))
              best == analysis[inst].best
              entries == analysis[inst].improvement
          IN /\ best \in names
             /\ \A a \in names : ~RatLess(MeanOf(inst, a), MeanOf(inst, best))
             /\ {entries[k].algorithm : k \in 1..Len(entries)} = names \ {best}
             /\ Len(entries) = Cardinality(names) - 1
             /\ \A k \in 1..Len(entries) :
                   MeanOf(inst, entries[k].algorithm).num # 0 =>
                       IsImprovement(entries[k].improvement,
                                     MeanOf(inst, entries[k].algorithm), MeanOf(inst, best))
    /\ \A inst \in DOMAIN ranking :
          MeanOf(inst, ranking[inst].worst).num # 0 =>
              IsImprovement(ranking[inst].improvement,
                            MeanOf(inst, ranking[inst].worst), MeanOf(inst, ranking[inst].best))

\* the scenario's instance analysed and ranked: greedy (mean 95) is the best
\* and regret (mean 110) improves by 15 / 110 * 100 = 150/11 percent
C20_Witness ==
    /\ \E inst \in DOMAIN analysis :
          /\ analysis[inst].best = <<"g", "r", "e", "e", "d", "y">>
          /\ analysis[inst].improvement
                = << [algorithm |-> Regret, improvement |-> Finite(Rat(150, 11))] >>
    /\ \E inst \in DOMAIN ranking :
          /\ ranking[inst].worst = Regret
          /\ ranking[inst].improvement = Finite(Rat(150, 11))

\* the canonical algorithms of an instance's run records
CanonicalNames(inst) == Range(BaseColumn(Entry(algorithm_data, inst).df))

\* the lines of an instance's pairwise step that compare a with b, in either order
LinesComparing(inst, a, b) ==
    {k \in 1..Len(tests[inst]) : {tests[inst][k].algo1, tests[inst][k].algo2} = {a, b}}

\* C21: within an instance the pairwise significance step compares every
\* unordered pair of distinct canonical algorithms exactly once: no algorithm
\* with itself, no pair in both orders, no pair skipped, n * (n - 1) / 2
\* comparisons for n canonical algorithms.
C21_EveryPairOnce ==
    \A inst \in DOMAIN tests :
        LET names == CanonicalNames(inst)
            lines == tests[inst]
        IN /\ \A k \in 1..Len(lines) :
                 /\ lines[k].algo1 # lines[k].algo2
                 /\ {lines[k].algo1, lines[k].algo2} \subseteq names
           /\ \A a, b \in names : a # b => Cardinality(LinesComparing(inst, a, b)) = 1
           /\ 2 * Len(lines) = Cardinality(names) * (Cardinality(names) - 1)

\* the tests were run on an instance of four canonical algorithms: six lines
C21_Witness ==
    \E inst \in DOMAIN tests :
        /\ Cardinality(CanonicalNames(inst)) = 4
        /\ Len(tests[inst]) = 6

Symbols == {"***", "**", "*", "ns"}

\* the symbol of a defined p-value by the thresholds 0.001, 0.01, 0.05
BucketOf(res) ==
    IF PBelow(res, 1) THEN "***"
    ELSE IF ~PBelow(res, 1) /\ PBelow(res, 10) THEN "**"
    ELSE IF ~PBelow(res, 10) /\ PBelow(res, 50) THEN "*"
    ELSE "ns"

\* C22: each comparison carries the one symbol its p-value determines (*** below
\* 0.001, ** from 0.001 to below 0.01, * from 0.01 to below 0.05, ns from 0.05
\* on), and a comparison whose p-value is undefined carries none of these
\* symbols: it is reported as not applicable.
C22_SymbolByPValue ==
    \A inst \in DOMAIN tests :
        \A k \in 1..Len(tests[inst]) :
            LET line == tests[inst][k]
            IN IF line.test.kind = "nan"
               THEN line.significance \notin Symbols
               ELSE line.significance = BucketOf(line.test)

\* the loaded instances that have the named optional piece
InstancesWith(piece) ==
    {algorithm_data[k].instance :
        k \in {k \in 1..Len(algorithm_data) : algorithm_data[k][piece].exists}}

\* C23: an instance whose visualization payload or summary digest is absent is
\* loaded with that piece absent and no consumer raises on it: the figures
\* drawn are those of the instances with a payload, the tables still have a
\* column with cells for every instance, and the per-algorithm summary display
\* prints its tables without failing on a missing digest.
C23_AbsentPiecesTolerated ==
    /\ error = NoError
    /\ \A k \in 1..Len(plots) : plots[k].instance_name \in InstancesWith("viz_data")
    /\ tables # <<>> =>
          /\ tables.objective.columns = instances
          /\ \A r \in 1..Len(tables.objective.rows) :
                \A j \in 1..Len(instances) :
                    (\E n \in 1..Len(Entry(algorithm_data, instances[j]).df) :
                        CleanAlgorithmName(Entry(algorithm_data, instances[j]).df[n].algorithm)
                            = tables.objective.rows[r].algorithm)
                        => tables.objective.rows[r].cells[j] # NA
    /\ "display_algorithm_statistics" \in Range(ops) =>
          {displayed[k].instance : k \in 1..Len(displayed)}
              = InstancesWith("summary_data")

\* the loaded instances whose run records are those of the end-to-end
\* scenario, in any order: (greedy_start1, 100, 5), (greedy_start2, 90, 6),
\* (regret, 110, 7)
ScenarioInstances ==
    {algorithm_data[k].instance :
        k \in {k \in 1..Len(algorithm_data) :
                 /\ Len(algorithm_data[k].df) = 3
                 /\ {Run(r.algorithm, r.objective_value, r.computation_time_ms) :
                        r \in Range(algorithm_data[k].df)} = Range(RunsScenario)}}

GreedyName == <<"g", "r", "e", "e", "d", "y">>
GreedyCell == <<"9", "5", ".", "0", "0", " ", "(", "9", "0", ".", "0", "0", " ", "-", " ", "1", "0", "0", ".", "0", "0", ")">>
RegretCell == <<"1", "1", "0", ".", "0", "0", " ", "(", "1", "1", "0", ".", "0", "0", " ", "-", " ", "1", "1", "0", ".", "0", "0", ")">>

\* the cell of the row named a in the column of the instance
CellOf(t, a, inst) ==
    LET r == CHOOSE r \in 1..Len(t.rows) : t.rows[r].algorithm = a
        j == CHOOSE j \in 1..Len(t.columns) : t.columns[j] = inst
    IN t.rows[r].cells[j]

\* C24: the end-to-end scenario: the three run records aggregate into exactly
\* two canonical groups, greedy with 2 runs and mean 95 and regret with 1 run
\* and mean 110, in the ranking, the exported statistics and the objective
\* table, and the ranking places greedy at rank 1.
C24_EndToEndScenario ==
    \A inst \in ScenarioInstances :
        /\ inst \in DOMAIN ranking =>
              LET rows == ranking[inst].rows
              IN /\ Len(rows) = 2
                 /\ rows[1].Algorithm = GreedyName /\ rows[1].Rank = 1
                 /\ rows[1].Runs = 2 /\ rows[1].Mean_Objective = Rat(95, 1)
                 /\ rows[2].Algorithm = Regret /\ rows[2].Rank = 2
                 /\ rows[2].Runs = 1 /\ rows[2].Mean_Objective = Rat(110, 1)
        /\ inst \in DOMAIN statistics =>
              /\ DOMAIN statistics[inst] = {GreedyName, Regret}
              /\ statistics[inst][GreedyName].count = 2
              /\ statistics[inst][GreedyName].mean = Finite(Rat(95, 1))
              /\ statistics[inst][Regret].count = 1
              /\ statistics[inst][Regret].mean = Finite(Rat(110, 1))
        /\ tables # <<>> =>
              /\ {GreedyName, Regret} \subseteq
                    {tables.objective.rows[r].algorithm : r \in 1..Len(tables.objective.rows)}
              /\ CellOf(tables.objective, GreedyName, inst) = GreedyCell
              /\ CellOf(tables.objective, Regret, inst) = RegretCell
              /\ \A r \in 1..Len(tables.objective.rows) :
                    tables.objective.rows[r].algorithm \notin {GreedyName, Regret}
                        => CellOf(tables.objective, tables.objective.rows[r].algorithm, inst) = NA

\* a scenario instance was ranked and the tables were built from it
C24_Witness ==
    \E inst \in ScenarioInstances :
        /\ inst \in DOMAIN ranking
        /\ ranking[inst].rows[1].Algorithm = GreedyName
        /\ tables # <<>>
        /\ CellOf(tables.objective, GreedyName, inst) = GreedyCell

\* C25: auxiliary exports never collide across repeated runs: two export runs
\* (for the same instance and the same filename suffix) never write the same
\* file name, so a later export never overwrites the file of an earlier one,
\* also when both runs start within one clock second.
C25_ExportsNeverCollide ==
    \A i, j \in 1..Len(exports) :
        exports[i].run # exports[j].run => exports[i].path # exports[j].path

\* the objective values of the run records of df whose label has the
\* canonical name a under the ranking's substitution, in record order
RunsNamed(df, a) ==
    LET members == SelectSeq(df, LAMBDA r : BaseAlgorithm(r.algorithm) = a)
    IN [k \in 1..Len(members) |-> members[k].objective_value]

\* the same under the report tables' substitution
RunsCleaned(df, a) ==
    LET members == SelectSeq(df, LAMBDA r : CleanAlgorithmName(r.algorithm) = a)
    IN [k \in 1..Len(members) |-> members[k].objective_value]

\* C28: grouping by canonical name partitions an instance's run records: every
\* record belongs to exactly one group, no group is empty, the group sizes sum
\* to the number of records, and a group's mean, minimum and maximum (in the
\* ranking and in the objective table's cell) are taken over all and only the
\* runs of that canonical algorithm in that instance.
C28_GroupsPartitionRuns ==
    /\ \A inst \in DOMAIN ranking :
          LET df == Entry(algorithm_data, inst).df
              rows == ranking[inst].rows
          IN /\ \A n \in 1..Len(df) :
                   Cardinality({k \in 1..Len(rows) :
                                   rows[k].Algorithm = BaseAlgorithm(df[n].algorithm)}) = 1
             /\ \A k \in 1..Len(rows) :
                   LET runs == RunsNamed(df, rows[k].Algorithm)
                   IN /\ rows[k].Runs >= 1
                      /\ rows[k].Runs = Len(runs)
                      /\ rows[k].Mean_Objective.num * Len(runs)
                            = SumSeq(runs) * rows[k].Mean_Objective.den
                      /\ rows[k].Best_Objective \in Range(runs)
                      /\ rows[k].Worst_Objective \in Range(runs)
                      /\ \A v \in Range(runs) :
                            rows[k].Best_Objective <= v /\ v <= rows[k].Worst_Objective
             /\ SumSeq([k \in 1..Len(rows) |-> rows[k].Runs]) = Len(df)
    /\ tables # <<>> =>
          \A r \in 1..Len(tables.objective.rows) : \A j \in 1..Len(instances) :
              LET runs == RunsCleaned(Entry(algorithm_data, instances[j]).df,
                                      tables.objective.rows[r].algorithm)
              IN tables.objective.rows[r].cells[j]
                    = IF runs = <<>> THEN NA ELSE ObjectiveCell(runs)

\* an instance with a group of two runs was ranked and the tables were built
C28_Witness ==
    /\ tables # <<>>
    /\ \E inst \in DOMAIN ranking :
          /\ \E k \in 1..Len(ranking[inst].rows) : ranking[inst].rows[k].Runs = 2
          /\ Len(Entry(algorithm_data, inst).df) = 4

(***************************************************************************)
(* Claims on loading                                                       *)
(***************************************************************************)
\* the requested instances whose results file exists
RequestedPresent == {instances[k] : k \in {k \in 1..Len(instances) : fsResults[instances[k]].exists}}

\* C3: once the loader has run, the keys of the mapping are exactly the
\* requested instances whose run-record source exists, each key once and with
\* the data of its own files; an absent instance is skipped and hides no other.
C3_LoadsEachIndependently ==
    pc # "start" =>
        /\ Keys(algorithm_data) = RequestedPresent
        /\ \A i, j \in 1..Len(algorithm_data) :
              i # j => algorithm_data[i].instance # algorithm_data[j].instance
        /\ \A k \in 1..Len(algorithm_data) :
              /\ algorithm_data[k].df = fsResults[algorithm_data[k].instance].results
              /\ algorithm_data[k].viz_data = fsViz[algorithm_data[k].instance]
        /\ (RequestedPresent # {} => error # "ValueError")

\* an absent instance was requested before one that was then loaded
C3_Witness ==
    /\ pc # "start"
    /\ \E i, j \in 1..Len(instances) :
          /\ i < j
          /\ ~fsResults[instances[i]].exists
          /\ instances[j] \in Keys(algorithm_data)

\* C4: when no requested instance yields a dataset, main returns non-zero and
\* nothing is written: no report, no image, no output directory.
C4_EmptyResultWritesNothing ==
    (pc = "done" /\ algorithm_data = <<>>) =>
        /\ exit_code = 1
        /\ report = NoReport
        /\ DOMAIN images = {}
        /\ dirs = {}

(***************************************************************************)
(* Claims on the tables                                                    *)
(***************************************************************************)
ReportPart(kind) == report[CHOOSE k \in 1..Len(report) : report[k].kind = kind]
ObjectiveTable == ReportPart("objective_table").content
TimeTable == ReportPart("time_table").content
RowNames(t) == [r \in 1..Len(t.rows) |-> t.rows[r].algorithm]

\* a run record with canonical name a was loaded for the instance
HasRuns(inst, a) ==
    \E k \in 1..Len(algorithm_data) :
        /\ algorithm_data[k].instance = inst
        /\ \E n \in 1..Len(algorithm_data[k].df) :
              CleanAlgorithmName(algorithm_data[k].df[n].algorithm) = a

NAPolicy(t) ==
    /\ \A r \in 1..Len(t.rows) : \A j \in 1..Len(instances) :
          (t.rows[r].cells[j] = NA) <=> ~HasRuns(instances[j], t.rows[r].algorithm)
    /\ \A k \in 1..Len(algorithm_data) : \A n \in 1..Len(algorithm_data[k].df) :
          \E r \in 1..Len(t.rows) :
              t.rows[r].algorithm = CleanAlgorithmName(algorithm_data[k].df[n].algorithm)
    /\ \A j \in 1..Len(instances) :
          instances[j] \notin Keys(algorithm_data) =>
              \A r \in 1..Len(t.rows) : t.rows[r].cells[j] = NA

\* C5: in both tables of the written report a cell is "N/A" exactly when no
\* run record with the row's canonical name was loaded for the column's
\* instance; every algorithm of a loaded instance has a row, and the column of
\* an instance that failed to load is all "N/A".
C5_NAExactlyWhenNoRuns ==
    report # NoReport => NAPolicy(ObjectiveTable) /\ NAPolicy(TimeTable)

\* two instances requested, data for one only: an all-"N/A" column beside a
\* column that holds statistics
C5_Witness ==
    /\ report # NoReport
    /\ Len(ObjectiveTable.rows) >= 1
    /\ \E i, j \in 1..Len(instances) :
          /\ instances[i] \in Keys(algorithm_data)
          /\ instances[j] \notin Keys(algorithm_data)
          /\ \A r \in 1..Len(ObjectiveTable.rows) :
                /\ ObjectiveTable.rows[r].cells[j] = NA
                /\ ObjectiveTable.rows[r].cells[i] # NA
                /\ TimeTable.rows[r].cells[j] = NA

Layout(t) ==
    /\ t.columns = instances
    /\ \A r \in 1..Len(t.rows) : Len(t.rows[r].cells) = Len(instances)
    /\ \A r1, r2 \in 1..Len(t.rows) :
          r1 < r2 => StrLess(t.rows[r1].algorithm, t.rows[r2].algorithm)
    /\ {t.rows[r].algorithm : r \in 1..Len(t.rows)}
          = UNION {CleanNames(algorithm_data[k].df) : k \in 1..Len(algorithm_data)}

\* C6: both tables have one column per requested instance in the caller's
\* order and one row per canonical name of the loaded instances, the rows in
\* strictly ascending string order (so without duplicates), and the two
\* tables list the same rows.
C6_TableLayout ==
    report # NoReport =>
        /\ Layout(ObjectiveTable)
        /\ Layout(TimeTable)
        /\ RowNames(ObjectiveTable) = RowNames(TimeTable)

\* two rows, from a results file that lists the larger name first and from
\* labels that share a canonical name, under two distinct columns
C6_Witness ==
    /\ report # NoReport
    /\ Len(ObjectiveTable.rows) = 2
    /\ Len(instances) = 2 /\ instances[1] # instances[2]
    /\ \E k \in 1..Len(algorithm_data) :
          /\ Len(algorithm_data[k].df) >= 2
          /\ StrLess(CleanAlgorithmName(algorithm_data[k].df[2].algorithm),
                     CleanAlgorithmName(algorithm_data[k].df[1].algorithm))
    /\ \E k \in 1..Len(algorithm_data) :
          /\ Len(algorithm_data[k].df) >= 2
          /\ algorithm_data[k].df[1].algorithm # algorithm_data[k].df[2].algorithm
          /\ CleanAlgorithmName(algorithm_data[k].df[1].algorithm)
                = CleanAlgorithmName(algorithm_data[k].df[2].algorithm)

(***************************************************************************)
(* Claims on the assembled report                                          *)
(***************************************************************************)
Kinds(rep) == [k \in 1..Len(rep) |-> rep[k].kind]

Opening == <<"pseudocode", "objective_table", "time_table", "visualization">>
Closing == <<"conclusions", "key_findings", "performance_comparison", "observations">>
FixedKinds == {"title", "authors"} \cup Range(Opening) \cup Range(Closing)

\* C13: a written report consists of the title, the author list (only with
\* authors to list), the pseudocode placeholder, the objective table, the time
\* table, the visualization part with nothing but instance sections in it, and
\* the closing placeholders, in this order, each of them at most once.
C13_FixedSectionOrder ==
    report # NoReport =>
        LET kinds == Kinds(report)
            n == Len(report)
            h == IF n >= 2 /\ kinds[2] = "authors" THEN 2 ELSE 1
        IN /\ n >= h + 8
           /\ kinds[1] = "title"
           /\ (h = 2 => report[2].content # <<>>)
           /\ SubSeq(kinds, h + 1, h + 4) = Opening
           /\ SubSeq(kinds, n - 3, n) = Closing
           /\ \A k \in (h + 5)..(n - 4) : kinds[k] \in {"instance", "figure", "route"}
           /\ \A i, j \in 1..n : (i # j /\ kinds[i] \in FixedKinds) => kinds[i] # kinds[j]

\* a report with an author list and with figures of two instances
C13_Witness ==
    /\ report # NoReport
    /\ \E k \in 1..Len(report) : report[k].kind = "authors"
    /\ Cardinality({k \in 1..Len(report) : report[k].kind = "instance"}) = 2
    /\ \E k \in 1..Len(report) : report[k].kind = "figure"

\* the algorithm_data entries of a requested instance that carry a payload
\* (none when the instance was not loaded or has no visualization file)
Payloads(inst) ==
    SelectSeq(algorithm_data, LAMBDA e : e.instance = inst /\ e.viz_data.exists)

\* the section C14 describes for one payload: the instance heading, then per
\* best solution, in the payload's order, the figure and right after it the route
ExpectedSection(e) ==
    <<Part("instance", e.instance, <<>>)>>
    \o Flatten([k \in 1..Len(e.viz_data.best_solutions) |->
         LET sol == e.viz_data.best_solutions[k]
         IN << Part("figure", sol.algorithm, FileName(e.instance, sol.algorithm)),
               Part("route", sol.algorithm, JoinRoute(sol.solution_data.route)) >>])

\* the visualization part of the report: what stands between its heading and
\* the conclusions
VisualizationPart ==
    LET from == CHOOSE k \in 1..Len(report) : report[k].kind = "visualization"
        to == CHOOSE k \in 1..Len(report) : report[k].kind = "conclusions"
    IN SubSeq(report, from + 1, to - 1)

\* the requested instances that have a payload, each once, in the caller's
\* order
RequestedPayloads ==
    Flatten([j \in 1..Len(instances) |->
        IF \E i \in 1..(j - 1) : instances[i] = instances[j] THEN <<>>
        ELSE Payloads(instances[j])])

\* C14: the visualization part of a written report is, for the requested
\* instances in the caller's order, one section per instance that has a
\* payload, each section listing every best solution once: its figure
\* reference and right after it its route, the node ids joined by commas.
\* The code emits no section for a payload with no best solution, and one
\* section per mention for an instance requested twice.
C14_SectionPerPayload ==
    report # NoReport =>
        VisualizationPart
          = Flatten([k \in 1..Len(RequestedPayloads) |->
                ExpectedSection(RequestedPayloads[k])])

(***************************************************************************)
(* Claims on the figures                                                   *)
(***************************************************************************)
\* the image files the report text refers to
ReferencedFiles(rep) == {rep[k].content : k \in {k \in 1..Len(rep) : rep[k].kind = "figure"}}

\* C7: at the step that writes the report, every image the report refers to
\* is already saved in the images directory, and it is still there afterwards.
C7_FiguresSavedBeforeReport ==
    [][(report = NoReport /\ report' # NoReport) =>
          /\ ReferencedFiles(report') \subseteq DOMAIN images
          /\ ReferencedFiles(report') \subseteq DOMAIN images']_vars

\* a written report that refers to figures of two instances
C7_Witness ==
    /\ report # NoReport
    /\ Cardinality(ReferencedFiles(report)) >= 2
    /\ Cardinality(DOMAIN visualizations) = 2

\* the job a saved figure was drawn for
JobOf(fig) ==
    LET jobs == PlotJobs(algorithm_data)
    IN jobs[CHOOSE k \in 1..Len(jobs) :
                /\ jobs[k].instance_name = fig.instance_name
                /\ jobs[k].algorithm = fig.algorithm]

\* where the node with this id lies
CoordOf(nodes, id) ==
    LET nd == CHOOSE nd \in Range(nodes) : nd.id = id
    IN <<nd.x, nd.y>>

\* the polyline of the figure is the route closed on its first node, and arrow
\* i lies on the edge from route[i] to its successor, points that way and has
\* the edge's midpoint as its centre (arrow ends are in tenths of a unit)
ClosedRoute(fig, nodes, route) ==
    LET n == Len(route)
    IN /\ n >= 1
       /\ Len(fig.route_coords) = n + 1
       /\ \A i \in 1..n : fig.route_coords[i] = CoordOf(nodes, route[i])
       /\ fig.route_coords[n + 1] = CoordOf(nodes, route[1])
       /\ Len(fig.arrows) = n
       /\ \A i \in 1..n :
             LET from == CoordOf(nodes, route[i])
                 to == CoordOf(nodes, route[(i % n) + 1])
                 a == fig.arrows[i]
             IN /\ a.tail[1] + a.head[1] = 10 * (from[1] + to[1])
                /\ a.tail[2] + a.head[2] = 10 * (from[2] + to[2])
                /\ \E c \in 1..10 :
                      /\ a.head[1] - a.tail[1] = c * (to[1] - from[1])
                      /\ a.head[2] - a.tail[2] = c * (to[2] - from[2])

\* C16: every saved figure draws its route as a closed polyline, the n nodes
\* in route order and then the first node again, with exactly n arrows, one
\* per edge, the closing edge included, each centred on its edge's midpoint
\* and pointing from the node to its successor.
C16_RouteClosedWithArrows ==
    \A file \in DOMAIN images :
        ClosedRoute(images[file], JobOf(images[file]).viz_data.nodes,
                    JobOf(images[file]).solution_data.route)

\* a saved figure of the route 3, 7, 9: four points, the fourth on node 3, and
\* three arrows
C16_Witness ==
    \E file \in DOMAIN images :
        /\ JobOf(images[file]).solution_data.route = <<3, 7, 9>>
        /\ images[file].route_coords = << <<0, 0>>, <<10, 0>>, <<0, 10>>, <<0, 0>> >>
        /\ Len(images[file].arrows) = 3

\* the failures the claim names: an id that is not in the node list, an empty route
NamedFailure(job) == PlotError(job) \in {"KeyError", "IndexError"}

\* C8: a failure in one figure is contained: when data was loaded, some
\* figure can be rendered and the only failures are ids missing from the node
\* list or empty routes, every other figure is saved, the report is written
\* and main returns 0.
C8_FailuresContained ==
    (/\ pc = "done"
     /\ algorithm_data # <<>>
     /\ TableError(algorithm_data) = NoError
     /\ \E k \in 1..Len(PlotJobs(algorithm_data)) :
           PlotError(PlotJobs(algorithm_data)[k]) = NoError
     /\ \A k \in 1..Len(PlotJobs(algorithm_data)) :
           PlotError(PlotJobs(algorithm_data)[k]) = NoError
           \/ NamedFailure(PlotJobs(algorithm_data)[k]))
    => /\ exit_code = 0
       /\ report # NoReport
       /\ \A k \in 1..Len(PlotJobs(algorithm_data)) :
             LET job == PlotJobs(algorithm_data)[k]
             IN PlotError(job) = NoError =>
                   FileName(job.instance_name, job.algorithm) \in DOMAIN images

UniformCosts(nodes) == nodes # <<>> /\ SeqMax(NodeCosts(nodes)) = SeqMin(NodeCosts(nodes))

\* the ids of the trace are all in the node list and the route is not empty
WellFormedTrace(job) ==
    /\ job.solution_data.route # <<>>
    /\ Range(job.solution_data.route) \subseteq NodeIds(job.viz_data.nodes)
    /\ Range(job.solution_data.selected_nodes) \subseteq NodeIds(job.viz_data.nodes)

\* the plot was attempted: the loop is past it, or stopped at it
Attempted(k) == k < plotIdx \/ (k = plotIdx /\ pc = "done")

\* C9: a well-formed solution of an instance whose nodes all cost the same is
\* rendered without a division by zero, every marker at size 50.
C9_UniformCostRenders ==
    /\ error # "ZeroDivisionError"
    /\ \A k \in 1..Len(PlotJobs(algorithm_data)) :
          LET job == PlotJobs(algorithm_data)[k]
              file == FileName(job.instance_name, job.algorithm)
          IN (Attempted(k) /\ UniformCosts(job.viz_data.nodes) /\ WellFormedTrace(job)) =>
                /\ file \in DOMAIN images
                /\ \A n \in 1..Len(images[file].node_sizes) :
                      /\ images[file].node_sizes[n].den # 0
                      /\ images[file].node_sizes[n].num = 50 * images[file].node_sizes[n].den

\* the selected_nodes of the trace are not the set of ids of its route
Mismatched(trace) == Range(trace.selected_nodes) # Range(trace.route)

\* the figure shows the trace as given: the selected markers are the
\* selected_nodes in their order, the polyline is the route in its order
DrawnAsGiven(fig, nodes, trace) ==
    /\ [k \in 1..Len(fig.selected) |-> fig.selected[k].id] = trace.selected_nodes
    /\ Len(fig.route_coords) = Len(trace.route) + 1
    /\ \A i \in 1..Len(trace.route) : fig.route_coords[i] = CoordOf(nodes, trace.route[i])

\* C17: a trace whose selected_nodes differ from the ids of its route, all of
\* them ids of the instance, is rendered from the data as given and its figure
\* carries the validation-failed badge.
C17_MismatchRenderedAsFailed ==
    \A k \in 1..Len(PlotJobs(algorithm_data)) :
        LET job == PlotJobs(algorithm_data)[k]
            file == FileName(job.instance_name, job.algorithm)
        IN (/\ Attempted(k)
            /\ Mismatched(job.solution_data)
            /\ WellFormedTrace(job)
            /\ ~UniformCosts(job.viz_data.nodes))
           => /\ file \in DOMAIN images
              /\ \/ JobOf(images[file]) # job
                 \/ /\ DrawnAsGiven(images[file], job.viz_data.nodes, job.solution_data)
                    /\ images[file].validated_text = BadgeFailed

\* C18: the caption of every saved figure carries exactly one of the two
\* badges, the validated badge when the trace's is_validated flag is true and
\* the validation-failed badge when it is false, whatever else the trace holds.
C18_BadgeFollowsFlag ==
    \A file \in DOMAIN images :
        LET text == images[file].validated_text
            flag == JobOf(images[file]).solution_data.is_validated
        IN /\ text \in {BadgeValidated, BadgeFailed}
           /\ (text = BadgeValidated) <=> flag
           /\ (text = BadgeFailed) <=> ~flag

\* figures with either badge are saved, the failed one for a trace that is
\* consistent and the validated one for a trace that is not
C18_Witness ==
    /\ \E file \in DOMAIN images :
          /\ images[file].validated_text = BadgeFailed
          /\ ~Mismatched(JobOf(images[file]).solution_data)
    /\ \E file \in DOMAIN images :
          /\ images[file].validated_text = BadgeValidated
          /\ JobOf(images[file]).solution_data.is_validated

\* C10: two distinct (instance, algorithm) pairs rendered in one run never
\* share an image file name.
C10_NamesCollisionFree ==
    \A i1, i2 \in DOMAIN visualizations :
        \A k1 \in 1..Len(visualizations[i1]) : \A k2 \in 1..Len(visualizations[i2]) :
            <<i1, visualizations[i1][k1].algorithm>> # <<i2, visualizations[i2][k2].algorithm>>
            => visualizations[i1][k1].filename # visualizations[i2][k2].filename

\* the figure parts of a report
FiguresListed(rep) == SelectSeq(rep, LAMBDA part : part.kind = "figure")

\* C27: rendering is idempotent per (instance, algorithm): every stored entry
\* names the file of its pair and that file holds the pair's figure, the
\* figure list of an instance holds at most one entry per algorithm after any
\* number of generate() calls, and a written report lists no figure twice.
C27_RenderingIdempotent ==
    /\ \A inst \in DOMAIN visualizations :
          LET entries == visualizations[inst]
          IN /\ \A k \in 1..Len(entries) :
                   /\ entries[k].filename = FileName(inst, entries[k].algorithm)
                   /\ entries[k].filename \in DOMAIN images
             /\ \A k1, k2 \in 1..Len(entries) :
                   k1 # k2 => entries[k1].algorithm # entries[k2].algorithm
    /\ report # NoReport =>
          \A k1, k2 \in 1..Len(FiguresListed(report)) :
              k1 # k2 => FiguresListed(report)[k1] # FiguresListed(report)[k2]

=============================================================================
